---- MODULE Spec2Model ----
(***************************************************************************)
(* Model of hewenyu/newapi-go: the Claude-protocol proxy's streaming       *)
(* handler (proxy/server/handlers.go), the stream event converter          *)
(* (proxy/converter/newapi_to_claude.go), the SSE decoder pump and its     *)
(* JSON reader (internal/transport stream code), and the transport's       *)
(* retry loop (internal/transport HTTPClient).                             *)
(***************************************************************************)
EXTENDS Integers, Sequences, FiniteSets, TLC

\* ---------------------------------------------------------------- bounds
\* longest backend body (in SSE records) drawn by InitStream
MaxBody == 3
\* longest scripted sequence of backend answers drawn by InitRetry
MaxScript == 3
\* length of the long backend body drawn by InitStream (it exceeds the event
\* buffer's capacity)
MaxBacklog == 102
\* largest retry count handed to BackoffDelay
MaxRetryCount == 40
\* longest backend body drawn by InitStreamCall
MaxCallBody == 2
\* most lines in one block handed to parseEvent
MaxLines == 3
\* most content blocks in one message of the message pool
MaxContent == 2
\* most messages in one request of the basic message lists
MaxMessages == 2
\* most tokens in a model name built from the token alphabet
MaxNameLen == 2
\* most items in the content array of a backend message
MaxItems == 2
\* goroutines that share one client
MaxGoroutines == 2
MaxChunks == 2
MaxCloses == 2
MaxWriters == 2
MaxWriterCalls == 4
MaxStarts == 3
MaxProcEvents == 2
MaxHistory == 3

\* ------------------------------------------------------- program constants
\* make(chan StreamEvent, 100)
EventChanCap == 100
\* make(chan error, 10)
ErrorChanCap == 10
\* make(chan bool, 1)
DoneChanCap == 1

VARIABLES
    \* --- backend response body and the decoder pump (StreamProcessor)
    body,         \* the SSE records the backend writes, in order
    bodyEnd,      \* how the body ends: "eof" or "scanerr" (scanner.Err() != nil)
    pos,          \* records the pump's scanner has consumed
    ppc,          \* pump position: "idle","scan","send","sendDone","closeEvents","closeErrors","closeDone","exited"
    eventChan,    \* sp.eventChan contents
    eventClosed,  \* close(sp.eventChan) done
    errorChan,    \* sp.errorChan contents
    errorClosed,  \* close(sp.errorChan) done
    doneChan,     \* sp.done contents
    doneClosed,   \* close(sp.done) done
    bodyClosed,   \* sp.reader.Close() called
    \* --- request context and the proxy's handler
    ctxDone,      \* the handler's ctx (request ctx + timeout) is Done
    spCancelled,  \* sp.cancel() called (StreamProcessor.Close)
    writer,       \* the http.ResponseWriter HandleMessage receives
    hpc,          \* handler position: "init","loop","returned"
    out,          \* SSE events written to the client, in order
    jsonStatus,   \* status of a JSON (non-SSE) response, 0 if none written
    finished,     \* ChatStreamProcessor.finished
    \* --- history of JSONStreamReader.Read results
    delivered,    \* records Read returned as data, in order
    lastRead,     \* how the latest Read call returned: "none","data","sentinel","done","err","nil"
    \* --- transport retry loop (HTTPClient.doWithRetry)
    script,       \* the backend's answers to attempts 1,2,...
    maxRetries,   \* retryPolicy.MaxRetries()
    rpc,          \* retry loop position: "attempt","sleep","returned"
    retryCount,   \* local retryCount
    attempts,     \* executeRequest calls made so far
    last,         \* outcome of the latest attempt
    sleeps,       \* backoff sleeps completed
    timerFired,   \* the timer of the current backoff sleep has expired
    rctx,         \* caller ctx of the transport call: "live","canceled","deadline"
    result,       \* what doWithRetry returned
    \* --- one call of a function or handler that keeps no state between calls
    call,         \* the call being made: the function's name and its arguments
    ret,          \* what the call returned, NoRet while it has not returned
    \* --- the SDK client shared by goroutines
    clientConfig, \* c.config: the configuration the client holds
    writing,      \* a store to c.config is in progress
    muWriter,     \* the goroutine that holds c.mu for writing, or NoGoroutine
    muPending,    \* the goroutine inside c.mu.Lock() waiting for readers to leave
    muReaders,    \* the goroutines that hold c.mu for reading
    gpc,          \* each goroutine's position in its call
    gop,          \* the method each goroutine is calling
    garg,         \* the argument of each goroutine's UpdateConfig
    gres,         \* the configuration each goroutine's getter read
    gerr,         \* what each goroutine's UpdateConfig returned
    installed,    \* the configuration of the latest completed store
    transport,    \* c.transport: the base URL and key its HTTPClient was built with
    services,     \* c.chatService, c.embeddingService, c.audioService: the transport they use
    \* --- objects with a lifecycle of their own
    chatReader,   \* a ChatStreamReader, its readLoop goroutine and its callers
    streamWriter, \* a types.StreamWriter and the goroutines that call it
    server,       \* the proxy's Server and the goroutine that runs its listener
    processor     \* a types.StreamProcessor, its process goroutine and its reader

pumpVars == <<body, bodyEnd, pos, ppc, eventChan, eventClosed, errorChan,
              errorClosed, doneChan, doneClosed, bodyClosed>>
handlerVars == <<ctxDone, spCancelled, writer, hpc, out, jsonStatus, finished>>
readVars == <<delivered, lastRead>>
streamVars == <<pumpVars, handlerVars, readVars>>
retryVars == <<script, maxRetries, rpc, retryCount, attempts, last, sleeps, timerFired,
              rctx, result>>
callVars == <<call, ret>>
clientVars == <<clientConfig, writing, muWriter, muPending, muReaders, gpc, gop, garg,
               gres, gerr, installed, transport, services>>
objectVars == <<chatReader, streamWriter, server, processor>>
vars == <<streamVars, retryVars, callVars, clientVars, objectVars>>

\* =======================================================================
\* Backend SSE records (what parseEvent yields for one block of lines)
\* =======================================================================
NoUsage == <<>>

\* a chunk whose first choice carries delta text t and finish reason f
Chunk(t, f, u) == [kind |-> "chunk", text |-> t, finish |-> f, usage |-> u]
\* valid JSON object with an empty choices array
NoChoiceRec == [kind |-> "nochoice", text |-> "", finish |-> "", usage |-> NoUsage]
\* data payload that is not valid JSON
BadRec == [kind |-> "bad", text |-> "", finish |-> "", usage |-> NoUsage]
\* data payload exactly [DONE]
DoneRec == [kind |-> "done", text |-> "", finish |-> "", usage |-> NoUsage]
\* a block with an event: line and no data: line (Data == "")
EventOnlyRec == [kind |-> "evonly", text |-> "", finish |-> "", usage |-> NoUsage]
\* zero value of transport.StreamEvent, received from a closed eventChan
ZeroRec == [kind |-> "zero", text |-> "", finish |-> "", usage |-> NoUsage]

FinishReasons == {"stop", "length", "content_filter", "tool_calls", "function_call"}

Alphabet ==
    { Chunk("Hel", "", NoUsage), Chunk("lo", "", NoUsage), Chunk("", "", NoUsage),
      Chunk("", "stop", <<5, 7>>), Chunk("", "length", NoUsage),
      NoChoiceRec, BadRec, DoneRec, EventOnlyRec }

ScenarioC == << Chunk("Hel", "", NoUsage), Chunk("lo", "", NoUsage),
                Chunk("", "length", NoUsage), DoneRec >>

\* a long answer: more delta chunks than the event buffer holds
LongBody == [i \in 1..MaxBacklog |-> Chunk("Hel", "", NoUsage)]

Bodies == UNION { [1..n -> Alphabet] : n \in 0..MaxBody } \cup {ScenarioC, LongBody}

\* transport.StreamEvent.Data == "" ?
DataEmpty(rec) == rec.kind \in {"evonly", "zero"}


\* =======================================================================
\* Converter: proxy/converter/newapi_to_claude.go
\* =======================================================================
\* a client-protocol SSE event; text, stop_reason and usage are the payload
\* fields the claims speak about
Ev(e, t, s, u) == [event |-> e, text |-> t, stop_reason |-> s, usage |-> u]

\* a mapping that knows end_turn only
mapStopReasonEndTurn(finishReason) == "end_turn"

mapStopReason(finishReason) ==
    CASE finishReason = "stop"           -> "end_turn"
      [] finishReason = "length"         -> "max_tokens"
      [] finishReason = "content_filter" -> "end_turn"
      [] finishReason = "tool_calls"     -> "tool_use"
      [] finishReason = "function_call"  -> "tool_use"
      [] finishReason = ""               -> "end_turn"
      [] OTHER                           -> "end_turn"

createMessageStartEvent == Ev("message_start", "", "", <<0, 0>>)
createContentBlockStartEvent == Ev("content_block_start", "", "", NoUsage)
createPingEvent == Ev("ping", "", "", NoUsage)
createContentDeltaEvent(text) == Ev("content_block_delta", text, "", NoUsage)
createContentBlockStopEvent == Ev("content_block_stop", "", "", NoUsage)
createMessageDeltaEvent(stopReason, usage) ==
    Ev("message_delta", "", mapStopReason(stopReason),
       IF usage = NoUsage THEN <<0, 0>> ELSE usage)
createMessageStopEvent == Ev("message_stop", "", "", NoUsage)
ErrorEvent == Ev("error", "", "", NoUsage)

GenerateStreamEvents ==
    << createMessageStartEvent, createContentBlockStartEvent, createPingEvent >>

GenerateStreamEndEvents(stopReason, usage) ==
    << createContentBlockStopEvent, createMessageDeltaEvent(stopReason, usage),
       createMessageStopEvent >>

\* json.Marshal(data) in streamReaderAdapter.Next: a nil interface value
\* marshals to the JSON literal null, any decoded value to itself
NullJSON == [kind |-> "null", text |-> "", finish |-> "", usage |-> NoUsage]
NilData == [kind |-> "nil", text |-> "", finish |-> "", usage |-> NoUsage]
MarshalData(data) == IF data = NilData THEN NullJSON ELSE data

\* json.Unmarshal(event.Data, &chunk) in processStreamEvent: null leaves the
\* zero ChatCompletionChunk (no choices); an object fills choices and usage
UnmarshalChunk(j) ==
    IF j.kind = "chunk"
    THEN [choices |-> << [text |-> j.text, finish |-> j.finish] >>, usage |-> j.usage]
    ELSE [choices |-> << >>, usage |-> NoUsage]

\* ConvertStreamChunk: error on no choices, message_stop on a finish reason,
\* otherwise a content_block_delta with the delta's text
ConvertStreamChunk(chunk) ==
    IF Len(chunk.choices) = 0
    THEN [err |-> TRUE, evs |-> << >>]
    ELSE IF chunk.choices[1].finish # ""
         THEN [err |-> FALSE, evs |-> << createMessageStopEvent >>]
         ELSE [err |-> FALSE, evs |-> << createContentDeltaEvent(chunk.choices[1].text) >>]

\* =======================================================================
\* Handler: proxy/server/handlers.go
\* =======================================================================
\* w.(http.Flusher): the server's loggingMiddleware hands the handler a
\* *responseWriter, which embeds the http.ResponseWriter interface and so
\* has only Header, Write and WriteHeader
ImplementsFlusher(w) == w # "responseWriter"

sendStreamError(o) == Append(o, ErrorEvent)

processStreamEvent(data) == ConvertStreamChunk(UnmarshalChunk(data))

\* results of stream.Next()
NextEOF == [kind |-> "eof", data |-> NilData]
NextErr == [kind |-> "err", data |-> NilData]
NextData(d) == [kind |-> "event", data |-> d]

\* streamReaderAdapter.Next over the result of JSONStreamReader.Read
AdapterNext(readKind, data) ==
    CASE readKind = "eof" -> NextEOF
      [] readKind = "err" -> NextErr
      [] OTHER            -> NextData(MarshalData(data))

\* the for-loop without the return after sendStreamError
LoopBodyNoReturn(o, res) ==
    IF res.kind = "eof"
    THEN [out |-> o \o GenerateStreamEndEvents("", NoUsage), hpc |-> "returned"]
    ELSE IF res.kind = "err"
         THEN [out |-> sendStreamError(o), hpc |-> "loop"]
         ELSE LET p == processStreamEvent(res.data)
              IN  IF p.err
                  THEN [out |-> sendStreamError(o), hpc |-> "loop"]
                  ELSE [out |-> o \o p.evs, hpc |-> "loop"]

\* body of the handler's for-loop after stream.Next() returned res
LoopBody(o, res) ==
    IF res.kind = "eof"
    THEN [out |-> o \o GenerateStreamEndEvents("", NoUsage), hpc |-> "returned"]
    ELSE IF res.kind = "err"
         THEN [out |-> sendStreamError(o), hpc |-> "returned"]
         ELSE LET p == processStreamEvent(res.data)
              IN  IF p.err
                  THEN [out |-> sendStreamError(o), hpc |-> "returned"]
                  ELSE [out |-> o \o p.evs, hpc |-> "loop"]

\* Read without the test for the [DONE] payload
ReadOnEventNoSentinel(rec) ==
    CASE rec.kind = "bad"  -> "err"
      [] OTHER             -> "data"

\* JSONStreamReader.Read on an event with non-empty Data
ReadOnEvent(rec) ==
    CASE rec.kind = "done" -> "eof"
      [] rec.kind = "bad"  -> "err"
      [] OTHER             -> "data"

\* =======================================================================
\* Initial states
\* =======================================================================
\* --- The SDK client and its configuration
DefaultBaseURL == "https://api.newapi.com"
Config(apiKey, baseURL, debug) == [APIKey |-> apiKey, BaseURL |-> baseURL, Debug |-> debug]
\* a nil *config.Config
NilConfig == Config("<nil>", "<nil>", FALSE)
\* config.DefaultConfig()
DefaultConfig == Config("", DefaultBaseURL, FALSE)
\* the configuration of NewClient(WithAPIKey("test-key"))
NewClientConfig == [DefaultConfig EXCEPT !.APIKey = "test-key"]
Goroutines == 1..MaxGoroutines
NoGoroutine == 0

\* transport.NewHTTPClient(c.config.BaseURL, c.config.APIKey, ...)
NewHTTPClient(cfg) == [BaseURL |-> cfg.BaseURL, APIKey |-> cfg.APIKey]
\* chat.NewChatService(c.transport, ...), embeddings.NewEmbeddingService(...),
\* audio.NewAudioService(...)
NewServices(t) == [chat |-> t, embeddings |-> t, audio |-> t]

\* a client fresh from NewClient, no goroutine in a call
ClientIdle ==
    /\ transport = NewHTTPClient(NewClientConfig)
    /\ services = NewServices(NewHTTPClient(NewClientConfig))
    /\ clientConfig = NewClientConfig
    /\ writing = FALSE
    /\ muWriter = NoGoroutine
    /\ muPending = NoGoroutine
    /\ muReaders = {}
    /\ gpc = [g \in Goroutines |-> "idle"]
    /\ gop = [g \in Goroutines |-> "none"]
    /\ garg = [g \in Goroutines |-> NilConfig]
    /\ gres = [g \in Goroutines |-> NilConfig]
    /\ gerr = [g \in Goroutines |-> "none"]
    /\ installed = NewClientConfig

\* a ChatStreamReader whose stream has ended, with no caller in Read or Close
ChatReaderIdle ==
    [upstream |-> << >>, upstreamEnd |-> "eof", buffer |-> 0, bufferCloses |-> 0,
     ctxDone |-> FALSE, mu |-> "free", finished |-> FALSE, err |-> "nil",
     wg |-> 0, lpc |-> "done", cpc |-> "idle", closes |-> 0, closeRet |-> "none",
     rdpc |-> "idle", rdRet |-> "none"]

\* a StreamWriter fresh from NewStreamWriter, no goroutine in a call
StreamWriterIdle ==
    [mutex |-> NoGoroutine, closed |-> FALSE, closeReturned |-> FALSE,
     calls |-> 0, written |-> 0, completes |-> 0,
     wpc |-> [g \in 1..MaxWriters |-> "idle"],
     wop |-> [g \in 1..MaxWriters |-> "none"],
     wret |-> [g \in 1..MaxWriters |-> "none"],
     wasClosed |-> [g \in 1..MaxWriters |-> FALSE]]

\* a Server fresh from NewServer: not started, no call made
ServerIdle ==
    [running |-> FALSE, serve |-> "none", shutDown |-> FALSE, addrInUse |-> FALSE,
     starts |-> 0, startRet |-> "none", rejectedWhile |-> "none",
     stopRet |-> "none", isRunning |-> FALSE, seenServe |-> "none"]

\* a StreamProcessor fresh from NewStreamProcessor over a reader fresh from
\* NewStreamReader with nothing to read
ProcessorIdle ==
    [input |-> << >>, inputEnd |-> "eof", rdone |-> FALSE, rclosed |-> FALSE,
     rctxDone |-> FALSE, ctxDone |-> FALSE, running |-> FALSE, ppc |-> "none",
     lastErr |-> "none", handled |-> "none"]

\* no object with a lifecycle is being modelled
ObjectsIdle ==
    /\ chatReader = ChatReaderIdle
    /\ streamWriter = StreamWriterIdle
    /\ server = ServerIdle
    /\ processor = ProcessorIdle

\* no stateless call is being modelled
NoCall == [fn |-> "none"]
NoRet == [fn |-> "none"]
CallIdle ==
    /\ call = NoCall
    /\ ret = NoRet

\* no transport call is being modelled
RetryIdle ==
    /\ script = << >>
    /\ maxRetries = 3
    /\ rpc = "returned"
    /\ retryCount = 0
    /\ attempts = 0
    /\ last = [err |-> "none", status |-> 0, big |-> FALSE]
    /\ sleeps = 0
    /\ timerFired = FALSE
    /\ rctx = "live"
    /\ result = [ok |-> FALSE, err |-> "none", status |-> 0]

\* a valid stream=true request arrives, either through the Server's handler
\* chain (the writer is loggingMiddleware's *responseWriter) or at the
\* handler directly with a writer that can flush
InitStream ==
    /\ body \in Bodies
    /\ bodyEnd \in {"eof", "scanerr"}
    /\ pos = 0
    /\ ppc = "idle"
    /\ eventChan = << >>
    /\ eventClosed = FALSE
    /\ errorChan = << >>
    /\ errorClosed = FALSE
    /\ doneChan = 0
    /\ doneClosed = FALSE
    /\ bodyClosed = FALSE
    /\ ctxDone = FALSE
    /\ spCancelled = FALSE
    /\ writer \in {"responseWriter", "flushWriter"}
    /\ hpc = "init"
    /\ out = << >>
    /\ jsonStatus = 0
    /\ finished = FALSE
    /\ delivered = << >>
    /\ lastRead = "none"
    /\ RetryIdle
    /\ CallIdle
    /\ ClientIdle
    /\ ObjectsIdle

\* =======================================================================
\* Decoder pump: StreamProcessor.processStream (one goroutine per stream)
\* =======================================================================
\* sp.ctx is derived from the handler's ctx and cancelled by sp.cancel()
SpCtxDone == ctxDone \/ spCancelled

\* scanner.Scan() delivered the lines of the next record (read from the
\* body, or still in the scanner's buffer after the body was closed); the
\* pump returns if sp.ctx is done, otherwise it goes on to send the event
PumpScan ==
    /\ ppc = "scan"
    /\ pos < Len(body)
    /\ ppc' = IF SpCtxDone THEN "closeEvents" ELSE "send"
    /\ UNCHANGED <<body, bodyEnd, pos, eventChan, eventClosed, errorChan, errorClosed,
                   doneChan, doneClosed, bodyClosed>>
    /\ UNCHANGED <<handlerVars, readVars, retryVars, callVars, clientVars, objectVars>>

\* sp.eventChan <- event: blocks while the buffer is full
PumpSend ==
    /\ ppc = "send"
    /\ Len(eventChan) < EventChanCap
    /\ eventChan' = Append(eventChan, body[pos + 1])
    /\ pos' = pos + 1
    /\ ppc' = "scan"
    /\ UNCHANGED <<body, bodyEnd, eventClosed, errorChan, errorClosed,
                   doneChan, doneClosed, bodyClosed>>
    /\ UNCHANGED <<handlerVars, readVars, retryVars, callVars, clientVars, objectVars>>

\* scanner.Scan() returned false: the body is exhausted, failed, or was closed
ScanFailed == bodyClosed \/ bodyEnd = "scanerr"

PumpScanEnd ==
    /\ ppc = "scan"
    /\ bodyClosed \/ pos = Len(body)
    /\ errorChan' = IF ScanFailed /\ Len(errorChan) < ErrorChanCap
                    THEN Append(errorChan, "StreamError") ELSE errorChan
    /\ ppc' = "sendDone"
    /\ UNCHANGED <<body, bodyEnd, pos, eventChan, eventClosed, errorClosed,
                   doneChan, doneClosed, bodyClosed>>
    /\ UNCHANGED <<handlerVars, readVars, retryVars, callVars, clientVars, objectVars>>

\* sp.done <- true
PumpSendDone ==
    /\ ppc = "sendDone"
    /\ doneChan < DoneChanCap
    /\ doneChan' = doneChan + 1
    /\ ppc' = "closeEvents"
    /\ UNCHANGED <<body, bodyEnd, pos, eventChan, eventClosed, errorChan,
                   errorClosed, doneClosed, bodyClosed>>
    /\ UNCHANGED <<handlerVars, readVars, retryVars, callVars, clientVars, objectVars>>

\* the deferred function: close(eventChan); close(errorChan); close(done);
\* reader.Close()
PumpCloseEvents ==
    /\ ppc = "closeEvents"
    /\ eventClosed' = TRUE
    /\ ppc' = "closeErrors"
    /\ UNCHANGED <<body, bodyEnd, pos, eventChan, errorChan, errorClosed,
                   doneChan, doneClosed, bodyClosed>>
    /\ UNCHANGED <<handlerVars, readVars, retryVars, callVars, clientVars, objectVars>>

PumpCloseErrors ==
    /\ ppc = "closeErrors"
    /\ errorClosed' = TRUE
    /\ ppc' = "closeDone"
    /\ UNCHANGED <<body, bodyEnd, pos, eventChan, eventClosed, errorChan,
                   doneChan, doneClosed, bodyClosed>>
    /\ UNCHANGED <<handlerVars, readVars, retryVars, callVars, clientVars, objectVars>>

PumpCloseDone ==
    /\ ppc = "closeDone"
    /\ doneClosed' = TRUE
    /\ bodyClosed' = TRUE
    /\ ppc' = "exited"
    /\ UNCHANGED <<body, bodyEnd, pos, eventChan, eventClosed, errorChan,
                   errorClosed, doneChan>>
    /\ UNCHANGED <<handlerVars, readVars, retryVars, callVars, clientVars, objectVars>>

\* =======================================================================
\* MessageHandler.handleStreamMessage
\* =======================================================================
\* the deferred stream.Close() and cancel(): ChatStreamProcessor.Close sets
\* finished, StreamProcessor.Close cancels sp.ctx and closes the body
HandlerReturns(h) == h = "returned"

\* w.(http.Flusher) fails: a JSON error response with status 500, no stream
HandleNoFlusher ==
    /\ hpc = "init"
    /\ ~ImplementsFlusher(writer)
    /\ jsonStatus' = 500
    /\ hpc' = "returned"
    /\ UNCHANGED <<ctxDone, spCancelled, writer, out, finished>>
    /\ UNCHANGED <<pumpVars, readVars, retryVars, callVars, clientVars, objectVars>>

\* CreateChatCompletionStream returned an error: one error event, return
HandleCreateFailed ==
    /\ hpc = "init"
    /\ ImplementsFlusher(writer)
    /\ out' = sendStreamError(out)
    /\ hpc' = "returned"
    /\ UNCHANGED <<ctxDone, spCancelled, writer, jsonStatus, finished>>
    /\ UNCHANGED <<pumpVars, readVars, retryVars, callVars, clientVars, objectVars>>

\* the stream is open (NewJSONStreamReader started the pump); the start
\* events are written
HandleStreamOpen ==
    /\ hpc = "init"
    /\ ImplementsFlusher(writer)
    /\ ppc = "idle"
    /\ ppc' = "scan"
    /\ out' = out \o GenerateStreamEvents
    /\ hpc' = "loop"
    /\ UNCHANGED <<ctxDone, spCancelled, writer, jsonStatus, finished>>
    /\ UNCHANGED <<body, bodyEnd, pos, eventChan, eventClosed, errorChan,
                   errorClosed, doneChan, doneClosed, bodyClosed>>
    /\ UNCHANGED <<readVars, retryVars, callVars, clientVars, objectVars>>

\* the request context is cancelled or the request timeout expires
CtxCancel ==
    /\ hpc = "loop"
    /\ ~ctxDone
    /\ ctxDone' = TRUE
    /\ UNCHANGED <<spCancelled, writer, hpc, out, jsonStatus, finished>>
    /\ UNCHANGED <<pumpVars, readVars, retryVars, callVars, clientVars, objectVars>>

\* case <-ctx.Done(): return   (top of the for-loop)
LoopCtxDone ==
    /\ hpc = "loop"
    /\ ctxDone
    /\ hpc' = "returned"
    /\ finished' = TRUE
    /\ spCancelled' = TRUE
    /\ bodyClosed' = TRUE
    /\ UNCHANGED <<ctxDone, writer, out, jsonStatus>>
    /\ UNCHANGED <<body, bodyEnd, pos, ppc, eventChan, eventClosed, errorChan,
                   errorClosed, doneChan, doneClosed>>
    /\ UNCHANGED <<readVars, retryVars, callVars, clientVars, objectVars>>

\* one iteration of the for-loop in which stream.Next() returned res
\* (ChatStreamProcessor.Next marks the stream finished on any error)
HandlerStep(res) ==
    LET r == LoopBody(out, res)
    IN  /\ out' = r.out
        /\ hpc' = r.hpc
        /\ finished' = (res.kind # "event" \/ HandlerReturns(r.hpc))
        /\ spCancelled' = (spCancelled \/ HandlerReturns(r.hpc))
        /\ bodyClosed' = (bodyClosed \/ HandlerReturns(r.hpc))
        /\ UNCHANGED <<ctxDone, writer, jsonStatus>>
        /\ UNCHANGED <<body, bodyEnd, pos, ppc>>
        /\ UNCHANGED <<retryVars, callVars, clientVars, objectVars>>

\* Read: case <-jr.ctx.Done(): return nil, jr.ctx.Err()
ReadCtxDone ==
    /\ hpc = "loop"
    /\ ctxDone
    /\ lastRead' = "err"
    /\ HandlerStep(AdapterNext("err", NilData))
    /\ UNCHANGED <<delivered, eventChan, eventClosed, errorChan, errorClosed,
                   doneChan, doneClosed>>

\* Read: case event := <-jr.processor.Events(), an event is buffered
ReadEvent ==
    /\ hpc = "loop"
    /\ eventChan # << >>
    /\ LET rec == Head(eventChan)
       IN  /\ eventChan' = Tail(eventChan)
           /\ IF DataEmpty(rec)
              THEN UNCHANGED <<handlerVars, bodyClosed, body, bodyEnd, pos, ppc,
                               retryVars, callVars, clientVars, objectVars, delivered, lastRead>>
              ELSE /\ lastRead' = CASE ReadOnEvent(rec) = "eof" -> "sentinel"
                                    [] OTHER -> ReadOnEvent(rec)
                   /\ delivered' = IF ReadOnEvent(rec) = "data"
                                   THEN Append(delivered, rec) ELSE delivered
                   /\ HandlerStep(AdapterNext(ReadOnEvent(rec), rec))
    /\ UNCHANGED <<eventClosed, errorChan, errorClosed, doneChan, doneClosed>>

\* Read: case err := <-jr.processor.Errors(), an error is buffered
ReadError ==
    /\ hpc = "loop"
    /\ errorChan # << >>
    /\ errorChan' = Tail(errorChan)
    /\ lastRead' = "err"
    /\ HandlerStep(AdapterNext("err", NilData))
    /\ UNCHANGED <<delivered, eventChan, eventClosed, errorClosed, doneChan, doneClosed>>

\* Read: case err := <-jr.processor.Errors() on the closed, drained channel:
\* the receive yields nil and Read returns (nil, nil)
ReadErrorsClosed ==
    /\ hpc = "loop"
    /\ errorChan = << >>
    /\ errorClosed
    /\ lastRead' = "nil"
    /\ HandlerStep(AdapterNext("data", NilData))
    /\ UNCHANGED <<delivered, eventChan, eventClosed, errorChan, errorClosed,
                   doneChan, doneClosed>>

\* Read: case <-jr.processor.Done(): return nil, io.EOF
ReadDone ==
    /\ hpc = "loop"
    /\ doneChan > 0 \/ doneClosed
    /\ doneChan' = IF doneChan > 0 THEN doneChan - 1 ELSE doneChan
    /\ lastRead' = "done"
    /\ HandlerStep(AdapterNext("eof", NilData))
    /\ UNCHANGED <<delivered, eventChan, eventClosed, errorChan, errorClosed, doneClosed>>

NextStream ==
    \/ PumpScan
    \/ PumpSend
    \/ PumpScanEnd
    \/ PumpSendDone
    \/ PumpCloseEvents
    \/ PumpCloseErrors
    \/ PumpCloseDone
    \/ HandleNoFlusher
    \/ HandleCreateFailed
    \/ HandleStreamOpen
    \/ CtxCancel
    \/ LoopCtxDone
    \/ ReadCtxDone
    \/ ReadEvent
    \/ ReadError
    \/ ReadErrorsClosed
    \/ ReadDone

SpecStream == InitStream /\ [][NextStream]_vars

\* =======================================================================
\* Properties of the streaming path (checked under SpecStream)
\* =======================================================================
Last(s) == s[Len(s)]
EventNames(o) == [i \in 1..Len(o) |-> o[i].event]
IsLifecycle(e) == e \notin {"ping", "content_block_delta"}
Lifecycle(o) == SelectSeq(EventNames(o), IsLifecycle)
IsErrorName(e) == e = "error"
ErrorCount(o) == Len(SelectSeq(EventNames(o), IsErrorName))

IsDelta(r) == r.kind = "chunk" /\ r.finish = ""
IsFinish(r) == r.kind = "chunk" /\ r.finish # ""

\* the backend sent delta chunks, then one chunk with a finish reason, then
\* the [DONE] sentinel, and closed the connection normally
FinishedBody ==
    /\ Len(body) >= 2
    /\ bodyEnd = "eof"
    /\ body[Len(body)] = DoneRec
    /\ IsFinish(body[Len(body) - 1])
    /\ \A i \in 1..(Len(body) - 2) : IsDelta(body[i])

\* the backend sent delta chunks only and ended at the sentinel or at the
\* end of input, never sending a finish reason
UnfinishedBody ==
    /\ bodyEnd = "eof"
    /\ \A i \in 1..Len(body) :
          \/ IsDelta(body[i])
          \/ (i = Len(body) /\ body[i] = DoneRec)

\* handleStreamMessage ran to its end on an opened stream whose request
\* context was never cancelled
StreamCompleted ==
    /\ hpc = "returned"
    /\ ~ctxDone
    /\ out # << >>
    /\ out[1].event = "message_start"

\* C1: for every chunk sequence whose last chunk carries a finish reason
\* (followed by [DONE]), the SSE response holds exactly one each of
\* message_start, content_block_start, content_block_stop, message_delta and
\* message_stop, in that order, and no error event.
C1_LifecycleOnce ==
    (FinishedBody /\ StreamCompleted) =>
        Lifecycle(out) = << "message_start", "content_block_start",
                            "content_block_stop", "message_delta", "message_stop" >>

\* C2: for a chunk sequence ending in a chunk with finish reason f and usage
\* u, the message_delta event carries stop_reason map(f) and usage u
\* (Scenario C: finish "length" yields stop_reason "max_tokens").
C2_MessageDeltaCarriesFinish ==
    (FinishedBody /\ StreamCompleted) =>
        LET f == body[Len(body) - 1]
            u == IF f.usage = NoUsage THEN <<0, 0>> ELSE f.usage
        IN  /\ \E i \in 1..Len(out) : out[i].event = "message_delta"
            /\ \A i \in 1..Len(out) :
                  out[i].event = "message_delta" =>
                      /\ out[i].stop_reason = mapStopReason(f.finish)
                      /\ out[i].usage = u

\* C3: for a chunk sequence that ends at [DONE] (or end of input) without any
\* finish reason, the handler still ends the response with
\* content_block_stop, message_delta(end_turn), message_stop and writes no
\* error event.
C3_ImplicitCompletion ==
    (UnfinishedBody /\ StreamCompleted) =>
        /\ ErrorCount(out) = 0
        /\ Len(out) >= 6
        /\ SubSeq(out, Len(out) - 2, Len(out)) = GenerateStreamEndEvents("", NoUsage)
        /\ out[Len(out) - 1].stop_reason = "end_turn"

\* C4: when stream.Next or the chunk conversion returns a non-EOF error, the
\* handler writes exactly one error event and nothing after it: an error
\* event is always the last event of the response and ends the handler.
C4_ErrorIsTerminal ==
    /\ \A i \in 1..Len(out) :
          out[i].event = "error" => (i = Len(out) /\ hpc = "returned")
    /\ (hpc = "returned" /\ lastRead \in {"err", "nil"}) =>
          (ErrorCount(out) = 1 /\ Last(out).event = "error")
    /\ (lastRead = "data" /\ Last(delivered).kind = "nochoice") =>
          (ErrorCount(out) = 1 /\ Last(out).event = "error")

\* a mid-stream error: deltas were written, then Next failed
C4_Witness ==
    /\ hpc = "returned"
    /\ lastRead = "err"
    /\ Len(out) >= 5
    /\ out[4].event = "content_block_delta"
    /\ Last(out).event = "error"

\* C5: a content_block_delta is emitted for a chunk iff the chunk carries
\* non-empty delta text and no finish reason, with the text verbatim.
HasDeltaText(r) == r.kind = "chunk" /\ r.finish = "" /\ r.text # ""
IsDeltaEvent(e) == e.event = "content_block_delta"
TextsOf(s) == [i \in 1..Len(s) |-> s[i].text]
C5_DeltaIffText ==
    TextsOf(SelectSeq(out, IsDeltaEvent)) = TextsOf(SelectSeq(delivered, HasDeltaText))

\* C6: every event the pump parsed before [DONE] reaches the consumer once
\* and in order, and end-of-stream is never reported while parsed events are
\* still undelivered.
HasData(r) == ~DataEmpty(r)
RECURSIVE BeforeDone(_)
BeforeDone(s) ==
    IF s = << >> \/ Head(s).kind \in {"done", "bad"} THEN << >>
    ELSE << Head(s) >> \o BeforeDone(Tail(s))
IsPrefix(s, t) == Len(s) <= Len(t) /\ SubSeq(t, 1, Len(s)) = s
C6_OrderedNoEarlyEOF ==
    /\ IsPrefix(delivered, SelectSeq(BeforeDone(body), HasData))
    /\ lastRead = "done" => SelectSeq(BeforeDone(eventChan), HasData) = << >>

\* C14: when Read takes an event whose data payload is exactly [DONE], it
\* reports the normal end of the stream (io.EOF): the sentinel is never
\* handed on as data, the consumer ends without an error, and no event is
\* delivered after the sentinel.
C14_SentinelEndsStream ==
    /\ [](\A i \in 1..Len(delivered) : delivered[i].kind # "done")
    /\ [](lastRead = "sentinel" =>
             /\ finished
             /\ hpc = "returned"
             /\ ErrorCount(out) = 0
             /\ Last(out).event = "message_stop")
    /\ [][lastRead = "sentinel" =>
             (delivered' = delivered /\ out' = out /\ lastRead' = "sentinel")]_vars

\* the sentinel was read after a delivered chunk while a later event was
\* still in the buffer
C14_Witness ==
    /\ lastRead = "sentinel"
    /\ Len(delivered) >= 1
    /\ eventChan # << >>
    /\ body[Len(delivered) + 1] = DoneRec

\* the backend stream holds a malformed event, or its scan fails (a line
\* longer than the scanner's buffer), with no [DONE] sent and nothing else in
\* it that would end the consumer
DecodeFailureBody ==
    /\ \A i \in 1..Len(body) : body[i].kind \in {"chunk", "bad", "evonly"}
    /\ (bodyEnd = "scanerr" \/ \E i \in 1..Len(body) : body[i] = BadRec)

\* C15: if the backend stream contains a malformed event or a line over the
\* scanner's ceiling, the consumer's last read returns the decode error and
\* the response ends with it; under no interleaving does such a stream end
\* as a normal end of stream.
C15_DecodeErrorNeverEOF ==
    (DecodeFailureBody /\ StreamCompleted) =>
        /\ lastRead = "err"
        /\ Last(out).event = "error"

\* the pump goroutine waits in sp.eventChan <- event on a full buffer
PumpBlocked == ppc = "send" /\ Len(eventChan) >= EventChanCap

\* C16: after the stream's context is cancelled or Close is called, the pump
\* stops and terminates with the response body closed, in every state of the
\* event buffer: once the handler has returned (Close was called and nobody
\* reads the stream any more) the pump is never left waiting on a full
\* buffer, and a pump that has exited has closed the body.
C16_PumpStopsAfterClose ==
    /\ ppc = "exited" => bodyClosed
    /\ (hpc = "returned" /\ spCancelled) => ~PumpBlocked

\* C31: every SSE response on which message_start has been written ends with
\* message_stop or an error event as its last event, also when the request
\* context is cancelled or times out in the middle of the stream.
C31_ResponseAlwaysTerminated ==
    (hpc = "returned" /\ \E i \in 1..Len(out) : out[i].event = "message_start") =>
        Last(out).event \in {"message_stop", "error"}

\* C32: JSONStreamReader.Read never returns (nil, nil): under every
\* interleaving with the pump closing its channels each return carries a
\* decoded value or a non-nil error.
C32_ReadNeverNilNil ==
    lastRead # "nil"

\* C7: a valid stream=true request through the Server's handler chain is
\* answered with an SSE stream beginning with message_start, not with an
\* error response.
C7_ServerStreams ==
    (writer = "responseWriter" /\ hpc = "returned") =>
        (jsonStatus = 0 /\ out # << >> /\ out[1].event = "message_start")

\* =======================================================================
\* Transport: HTTPClient.doWithRetry, shouldRetry, DefaultRetryPolicy and
\* the ResponseHandler
\* =======================================================================
\* NewDefaultRetryPolicy: maxRetries: 3
DefaultMaxRetries == 3

\* outcome of one executeRequest call: an HTTP response (err == nil) or an
\* error without a response
Resp(st, oversize) == [err |-> "nil", status |-> st, big |-> oversize]
Fail(kind) == [err |-> kind, status |-> 0, big |-> FALSE]
NoOutcome == [err |-> "none", status |-> 0, big |-> FALSE]

Statuses == {200, 400, 404, 413, 429, 500, 502, 503, 504}
\* "net_timeout": a net.Error with Temporary() or Timeout() (connection
\* failure); "net_perm": a net.Error with neither; "untyped": an error that
\* is not a net.Error
BackendFailures == {"net_timeout", "net_perm", "untyped"}
Outcomes == { Resp(st, FALSE) : st \in Statuses } \cup { Resp(200, TRUE) }
            \cup { Fail(k) : k \in BackendFailures }

Scripts == UNION { [1..n -> Outcomes] : n \in 1..MaxScript }

\* the backend's answer to attempt number n (it keeps giving its last
\* scripted answer); a request on a context that is done fails with the
\* context's error
ScriptedOutcome(n) == IF n <= Len(script) THEN script[n] ELSE script[Len(script)]
executeRequest(n, ctx) == IF ctx # "live" THEN Fail(ctx) ELSE ScriptedOutcome(n)

\* ResponseHandler.ShouldRetry
ResponseHandlerShouldRetry(status) == status \in {429, 500, 502, 503, 504}

\* DefaultRetryPolicy.ShouldRetry
PolicyShouldRetry(ctx, o) ==
    IF ctx # "live" THEN FALSE
    ELSE IF o.err # "nil"
         THEN IF o.err \in {"net_timeout", "net_perm", "canceled", "deadline"}
              THEN o.err \in {"net_timeout", "deadline"}
              ELSE TRUE
         ELSE o.status \in {429, 500, 502, 503, 504}

\* shouldRetry reduced to "retry on any error"
shouldRetryAnyError(ctx, o, rc, max) == o.err # "nil"

\* HTTPClient.shouldRetry
shouldRetry(ctx, o, rc, max) ==
    IF ctx # "live" THEN FALSE
    ELSE IF rc >= max THEN FALSE
    ELSE IF o.err # "nil" THEN PolicyShouldRetry(ctx, o)
    ELSE ResponseHandlerShouldRetry(o.status) /\ PolicyShouldRetry(ctx, o)

\* the loop without its retry limit
RetryAgainNoLimit(ctx, o, rc, max) ==
    IF o.err = "nil" THEN FALSE ELSE PolicyShouldRetry(ctx, o)

\* the two break tests of doWithRetry's loop: TRUE when the loop goes on to
\* the backoff sleep
RetryAgain(ctx, o, rc, max) ==
    IF o.err = "nil" \/ rc >= max THEN FALSE
    ELSE shouldRetry(ctx, o, rc, max)

\* ResponseHandler.HandleJSONResponse over what doWithRetry returned
Ok == [ok |-> TRUE, err |-> "nil", status |-> 200]
Err(kind, st) == [ok |-> FALSE, err |-> kind, status |-> st]
NoResult == [ok |-> FALSE, err |-> "none", status |-> 0]
HandleJSONResponse(o) ==
    IF o.err # "nil" THEN Err(o.err, 0)
    ELSE IF o.big THEN Err("payload_too_large", 413)
    ELSE IF o.status >= 400 THEN Err("api_error", o.status)
    ELSE Ok

StreamIdle ==
    /\ body = << >>
    /\ bodyEnd = "eof"
    /\ pos = 0
    /\ ppc = "idle"
    /\ eventChan = << >>
    /\ eventClosed = FALSE
    /\ errorChan = << >>
    /\ errorClosed = FALSE
    /\ doneChan = 0
    /\ doneClosed = FALSE
    /\ bodyClosed = FALSE
    /\ ctxDone = FALSE
    /\ spCancelled = FALSE
    /\ writer = "flushWriter"
    /\ hpc = "returned"
    /\ out = << >>
    /\ jsonStatus = 0
    /\ finished = FALSE
    /\ delivered = << >>
    /\ lastRead = "none"

\* one transport call (DoJSON) starts against a scripted backend
InitRetry ==
    /\ script \in Scripts
    /\ maxRetries \in 1..DefaultMaxRetries
    /\ rpc = "attempt"
    /\ retryCount = 0
    /\ attempts = 0
    /\ last = NoOutcome
    /\ sleeps = 0
    /\ timerFired = FALSE
    /\ rctx = "live"
    /\ result = NoResult
    /\ StreamIdle
    /\ CallIdle
    /\ ClientIdle
    /\ ObjectsIdle

\* resp, err = finalHandler(ctx, req)
RetryAttempt ==
    /\ rpc = "attempt"
    /\ attempts < maxRetries + 3
    /\ attempts' = attempts + 1
    /\ last' = executeRequest(attempts + 1, rctx)
    /\ rpc' = "decide"
    /\ UNCHANGED <<script, maxRetries, retryCount, sleeps, timerFired, rctx, result>>
    /\ UNCHANGED <<streamVars, callVars, clientVars, objectVars>>

\* the break tests; on break doWithRetry returns (resp, err) and the
\* response handler turns it into the call's result
RetryDecide ==
    /\ rpc = "decide"
    /\ IF RetryAgain(rctx, last, retryCount, maxRetries)
       THEN /\ rpc' = "sleep"
            /\ timerFired' = FALSE
            /\ UNCHANGED result
       ELSE /\ rpc' = "returned"
            /\ result' = HandleJSONResponse(last)
            /\ UNCHANGED timerFired
    /\ UNCHANGED <<script, maxRetries, retryCount, attempts, last, sleeps, rctx>>
    /\ UNCHANGED <<streamVars, callVars, clientVars, objectVars>>

\* a sleep that cannot be interrupted: only the timer wakes it
SleepSelectTimerOnly(ctx, fired) == IF fired THEN {"timer"} ELSE {}

\* the cases of the backoff select that are ready: <-ctx.Done() once the
\* caller's context is done, <-time.After(delay) once the timer has expired;
\* select takes any one of the ready cases
SleepSelect(ctx, fired) ==
    (IF ctx # "live" THEN {"ctx"} ELSE {}) \cup (IF fired THEN {"timer"} ELSE {})

\* the timer of time.After(delay) expires
RetryTimerExpires ==
    /\ rpc = "sleep"
    /\ ~timerFired
    /\ timerFired' = TRUE
    /\ UNCHANGED <<script, maxRetries, rpc, retryCount, attempts, last, sleeps, rctx, result>>
    /\ UNCHANGED <<streamVars, callVars, clientVars, objectVars>>

\* select: case <-time.After(delay); retryCount++
RetrySleepDone ==
    /\ rpc = "sleep"
    /\ "timer" \in SleepSelect(rctx, timerFired)
    /\ retryCount' = retryCount + 1
    /\ sleeps' = sleeps + 1
    /\ rpc' = "attempt"
    /\ UNCHANGED <<script, maxRetries, attempts, last, timerFired, rctx, result>>
    /\ UNCHANGED <<streamVars, callVars, clientVars, objectVars>>

\* select: case <-ctx.Done(): return nil, ctx.Err()
RetrySleepCancelled ==
    /\ rpc = "sleep"
    /\ "ctx" \in SleepSelect(rctx, timerFired)
    /\ rpc' = "returned"
    /\ result' = Err(rctx, 0)
    /\ UNCHANGED <<script, maxRetries, retryCount, attempts, last, sleeps, timerFired, rctx>>
    /\ UNCHANGED <<streamVars, callVars, clientVars, objectVars>>

\* the caller cancels the context, or its deadline passes
RetryCtxCancel ==
    /\ rpc # "returned"
    /\ rctx = "live"
    /\ rctx' \in {"canceled", "deadline"}
    /\ UNCHANGED <<script, maxRetries, rpc, retryCount, attempts, last, sleeps, timerFired, result>>
    /\ UNCHANGED <<streamVars, callVars, clientVars, objectVars>>

NextRetry ==
    \/ RetryAttempt
    \/ RetryDecide
    \/ RetryTimerExpires
    \/ RetrySleepDone
    \/ RetrySleepCancelled
    \/ RetryCtxCancel

SpecRetry == InitRetry /\ [][NextRetry]_vars

\* =======================================================================
\* Properties of the transport call (checked under SpecRetry)
\* =======================================================================
RetryableStatus(st) == st \in {429, 500, 502, 503, 504}
\* connection failure: the attempt ended without a response, and not
\* because the caller's context was done
ConnectionFailure(o) == o.err \in BackendFailures
RetryableOutcome(o) ==
    \/ ConnectionFailure(o)
    \/ (o.err = "nil" /\ RetryableStatus(o.status))
\* any other 4xx status, payload-too-large, caller cancellation or deadline
FatalOutcome(o) ==
    \/ (o.err = "nil" /\ o.status >= 400 /\ o.status < 500 /\ ~RetryableStatus(o.status))
    \/ (o.err = "nil" /\ o.big)
    \/ o.err \in {"canceled", "deadline"}

\* C8: a backend answering 503 on attempts 1 and 2 and succeeding on attempt
\* 3, under a policy allowing 3 attempts: the call succeeds with the third
\* response after two backoff sleeps.
C8_RetriesThrough503 ==
    ( /\ script = << Resp(503, FALSE), Resp(503, FALSE), Resp(200, FALSE) >>
      /\ maxRetries >= 2
      /\ rctx = "live"
      /\ rpc = "returned" )
    => (result = Ok /\ attempts = 3 /\ sleeps = 2)

\* C9 as stated: one transport call makes at most N = MaxRetries() attempts
\* in total, the first try included.
C9_AtMostNAttempts == attempts <= maxRetries

\* C9 amended: one transport call makes at most MaxRetries() + 1 attempts
\* in total (the first try and at most MaxRetries() retries), and when the
\* last allowed attempt fails its error is the call's result.
C9_AtMostNPlusOneAttempts ==
    /\ attempts <= maxRetries + 1
    /\ retryCount <= maxRetries
    /\ (rpc = "returned" /\ attempts = maxRetries + 1 /\ last.err # "nil") =>
          result = Err(last.err, 0)

\* every allowed attempt failed and the last error came back
C9_Witness ==
    /\ rpc = "returned"
    /\ maxRetries = DefaultMaxRetries
    /\ attempts = maxRetries + 1
    /\ sleeps = maxRetries
    /\ result = Err("net_timeout", 0)

\* C10: only retryable outcomes (connection failure, HTTP 429/500/502/503/
\* 504) lead to another attempt; an attempt ending in any other 4xx status,
\* payload-too-large or caller cancellation/deadline is followed by no
\* further attempt and its error is the call's result.
C10_FatalNotRetried ==
    /\ rpc = "sleep" => (RetryableOutcome(last) /\ ~FatalOutcome(last))
    /\ (rpc = "attempt" /\ attempts > 0) => (RetryableOutcome(last) /\ ~FatalOutcome(last))
    /\ (rpc = "returned" /\ FatalOutcome(last)) =>
          /\ ~result.ok
          /\ result = HandleJSONResponse(last)
          /\ result.err \in {"api_error", "payload_too_large", "canceled", "deadline"}

\* a retry happened, then an attempt ended with a fatal outcome and the
\* call returned its error without trying again
C10_Witness ==
    /\ rpc = "returned"
    /\ attempts = 2
    /\ attempts <= maxRetries
    /\ FatalOutcome(last)
    /\ ~result.ok

\* =======================================================================
\* The streaming call end to end: PostStream (DoStream over doWithRetry and
\* the response handler), then the handler's loop over the opened stream
\* =======================================================================
\* ResponseHandler.HandleStreamResponse over what doWithRetry returned (the
\* backend answers a stream request with Content-Type text/event-stream)
HandleStreamResponse(o) ==
    IF o.err # "nil" THEN Err(o.err, 0)
    ELSE IF o.status >= 400 THEN Err("api_error", o.status)
    ELSE Ok

\* backend behaviours while the stream is being opened
StreamScripts ==
    { << Resp(200, FALSE) >>,
      << Fail("net_timeout"), Resp(200, FALSE) >>,
      << Fail("net_timeout"), Fail("untyped"), Resp(200, FALSE) >>,
      << Fail("net_timeout"), Resp(500, FALSE) >>,
      << Resp(503, FALSE) >>,
      << Fail("net_perm") >> }

StreamCallBodies == UNION { [1..n -> Alphabet] : n \in 0..MaxCallBody }

\* a valid stream=true request reached handleStreamMessage with a writer
\* that can flush; the transport call that opens the stream is about to start
InitStreamCall ==
    /\ body \in StreamCallBodies
    /\ bodyEnd \in {"eof", "scanerr"}
    /\ pos = 0
    /\ ppc = "idle"
    /\ eventChan = << >>
    /\ eventClosed = FALSE
    /\ errorChan = << >>
    /\ errorClosed = FALSE
    /\ doneChan = 0
    /\ doneClosed = FALSE
    /\ bodyClosed = FALSE
    /\ ctxDone = FALSE
    /\ spCancelled = FALSE
    /\ writer = "flushWriter"
    /\ hpc = "init"
    /\ out = << >>
    /\ jsonStatus = 0
    /\ finished = FALSE
    /\ delivered = << >>
    /\ lastRead = "none"
    /\ script \in StreamScripts
    /\ maxRetries = DefaultMaxRetries
    /\ rpc = "attempt"
    /\ retryCount = 0
    /\ attempts = 0
    /\ last = NoOutcome
    /\ sleeps = 0
    /\ timerFired = FALSE
    /\ rctx = "live"
    /\ result = NoResult
    /\ CallIdle
    /\ ClientIdle
    /\ ObjectsIdle

\* DoStream: the break tests of doWithRetry, then HandleStreamResponse
DoStreamDecide ==
    /\ rpc = "decide"
    /\ IF RetryAgain(rctx, last, retryCount, maxRetries)
       THEN /\ rpc' = "sleep"
            /\ timerFired' = FALSE
            /\ UNCHANGED result
       ELSE /\ rpc' = "returned"
            /\ result' = HandleStreamResponse(last)
            /\ UNCHANGED timerFired
    /\ UNCHANGED <<script, maxRetries, retryCount, attempts, last, sleeps, rctx>>
    /\ UNCHANGED <<streamVars, callVars, clientVars, objectVars>>

\* PostStream returned a reader: NewJSONStreamReader started the pump
PostStreamOpened ==
    /\ rpc = "returned"
    /\ result.ok
    /\ HandleStreamOpen

\* PostStream returned an error
PostStreamFailed ==
    /\ rpc = "returned"
    /\ ~result.ok
    /\ HandleCreateFailed

NextStreamCall ==
    \/ RetryAttempt
    \/ DoStreamDecide
    \/ RetryTimerExpires
    \/ RetrySleepDone
    \/ PostStreamOpened
    \/ PostStreamFailed
    \/ PumpScan
    \/ PumpSend
    \/ PumpScanEnd
    \/ PumpSendDone
    \/ PumpCloseEvents
    \/ PumpCloseErrors
    \/ PumpCloseDone
    \/ CtxCancel
    \/ LoopCtxDone
    \/ ReadCtxDone
    \/ ReadEvent
    \/ ReadError
    \/ ReadErrorsClosed
    \/ ReadDone

SpecStreamCall == InitStreamCall /\ [][NextStreamCall]_vars

\* a malformed event is buffered ahead of any [DONE]
PendingDecodeError ==
    \E i \in 1..Len(eventChan) :
        /\ eventChan[i].kind = "bad"
        /\ \A j \in 1..(i - 1) : eventChan[j].kind # "done"

\* C13: once the streaming call has handed the stream to the caller, the
\* request is never issued again (no further attempt is made), and a read or
\* decoding error that has occurred is surfaced: the stream is never reported
\* as ended while such an error is waiting to be read.
C13_ErrorsSurfacedNoRetry ==
    /\ [][(hpc = "loop" \/ hpc = "returned")
              => (attempts' = attempts /\ rpc' = "returned")]_vars
    /\ [](lastRead = "done" => (errorChan = << >> /\ ~PendingDecodeError))

\* C12: if the caller's context is cancelled or its deadline passes while
\* the transport sleeps between attempts, the sleep can end at once (the
\* cancellation case of the select is ready whatever the timer's state), a
\* select that acts before the timer has expired returns, and leaving the
\* sleep by returning yields the context's Canceled/DeadlineExceeded error
\* with no further attempt made.
C12_SleepWakesOnCancel ==
    /\ []((rpc = "sleep" /\ rctx # "live") => ENABLED RetrySleepCancelled)
    /\ [][(rpc = "sleep" /\ rctx # "live" /\ ~timerFired /\ rpc' # "sleep")
              => rpc' = "returned"]_vars
    /\ [][(rpc = "sleep" /\ rpc' = "returned")
              => /\ rctx \in {"canceled", "deadline"}
                 /\ result' = Err(rctx, 0)
                 /\ attempts' = attempts
                 /\ sleeps' = sleeps]_vars

\* the call returned the context's error out of its first sleep, before the
\* timer expired, after a single attempt
C12_Witness ==
    /\ rpc = "returned"
    /\ rctx \in {"canceled", "deadline"}
    /\ result = Err(rctx, 0)
    /\ last = Fail("net_timeout")
    /\ attempts = 1
    /\ sleeps = 0
    /\ ~timerFired

\* =======================================================================
\* Calls of functions and handlers that keep no state between calls
\* =======================================================================
\* --- time.Duration: an int64 count of nanoseconds, held as the set of the
\* positions of its one bits (bit 63 is the sign)
Int64Bits == 0..63
\* the bits of a natural number below 2^31
BitsOf(n) == { i \in 0..30 : (n \div (2^i)) % 2 = 1 }
\* int64 multiplication by 2^k: the bits move up k places, those that pass
\* bit 63 are lost
ShiftLeft64(b, k) == { i + k : i \in b } \cap Int64Bits
Negative64(b) == 63 \in b
GreaterUnsigned64(a, b) ==
    \E i \in a \ b : \A j \in (i + 1)..63 : (j \in a) = (j \in b)
\* a > b on int64 values
Greater64(a, b) ==
    IF Negative64(a) # Negative64(b) THEN Negative64(b) ELSE GreaterUnsigned64(a, b)
\* time.Second = 1000000000 ns = 1953125 * 2^9
SecondOddPart == 1953125
SecondShift == 9
\* n * time.Second for 0 <= n <= 1000
Seconds(n) == ShiftLeft64(BitsOf(n * SecondOddPart), SecondShift)

\* DefaultRetryPolicy: baseDelay 1 * time.Second, and the 30 * time.Second
\* ceiling of BackoffDelay
BaseDelaySeconds == 1
MaxDelaySeconds == 30

\* DefaultRetryPolicy.BackoffDelay: time.Duration(math.Pow(2, float64(rc)))
\* is exactly 2^rc while rc <= 62, and the int64 product baseDelay * 2^rc
\* is a left shift of baseDelay by rc places
BackoffDelay(rc) ==
    LET delay == ShiftLeft64(Seconds(BaseDelaySeconds), rc)
    IN  IF Greater64(delay, Seconds(MaxDelaySeconds))
        THEN Seconds(MaxDelaySeconds)
        ELSE delay

\* --- SSE lines: a line is a sequence of tokens, the field names "data:",
\* "event:", "id:", "retry:" and the comment mark ":" being one token each,
\* SP a blank and LF the newline that joins data segments
SP == " "
LF == "LF"
DataPrefix == << "data:", SP >>
EventPrefix == << "event:", SP >>
IDPrefix == << "id:", SP >>
RetryPrefix == << "retry:", SP >>

\* the lines a block is drawn from: data lines with payloads a, b and the
\* empty payload, an event, an id and a retry line, and a comment
RawLines ==
    { DataPrefix \o << "a" >>, DataPrefix \o << "b" >>, DataPrefix,
      EventPrefix \o << "a" >>, IDPrefix \o << "b" >>, RetryPrefix \o << "7" >>,
      << ":", SP, "a" >> }

\* strings.HasPrefix, strings.TrimPrefix, strings.TrimSpace
HasPrefix(line, pre) == Len(line) >= Len(pre) /\ SubSeq(line, 1, Len(pre)) = pre
TrimPrefix(line, pre) ==
    IF HasPrefix(line, pre) THEN SubSeq(line, Len(pre) + 1, Len(line)) ELSE line
RECURSIVE TrimLeft(_)
TrimLeft(line) ==
    IF line # << >> /\ Head(line) = SP THEN TrimLeft(Tail(line)) ELSE line
RECURSIVE TrimRight(_)
TrimRight(line) ==
    IF line # << >> /\ line[Len(line)] = SP
    THEN TrimRight(SubSeq(line, 1, Len(line) - 1)) ELSE line
TrimSpace(line) == TrimRight(TrimLeft(line))

\* fmt.Sscanf(s, "%d", &event.Retry): the number read, or the old value
\* when s does not start with a number
Sscanf(str, old) == IF str # << >> /\ Head(str) = "7" THEN 7 ELSE old

\* the zero transport.StreamEvent
ZeroEvent == [Data |-> << >>, Event |-> << >>, ID |-> << >>, Retry |-> 0]

\* one iteration of the loop of StreamProcessor.parseEvent
ParseLine(event, line) ==
    IF HasPrefix(line, DataPrefix)
    THEN LET data == TrimPrefix(line, DataPrefix)
         IN  IF event.Data = << >>
             THEN [event EXCEPT !.Data = data]
             ELSE [event EXCEPT !.Data = event.Data \o << LF >> \o data]
    ELSE IF HasPrefix(line, EventPrefix)
         THEN [event EXCEPT !.Event = TrimPrefix(line, EventPrefix)]
    ELSE IF HasPrefix(line, IDPrefix)
         THEN [event EXCEPT !.ID = TrimPrefix(line, IDPrefix)]
    ELSE IF HasPrefix(line, RetryPrefix)
         THEN [event EXCEPT !.Retry = Sscanf(TrimPrefix(line, RetryPrefix), event.Retry)]
    ELSE event

RECURSIVE ParseLines(_, _)
ParseLines(event, lines) ==
    IF lines = << >> THEN event
    ELSE ParseLines(ParseLine(event, Head(lines)), Tail(lines))

\* StreamProcessor.parseEvent
parseEvent(lines) == ParseLines(ZeroEvent, lines)

\* processStream over the lines of one block (the lines up to a blank line):
\* each line is trimmed before it is collected, and the parsed event is sent
\* when it has data or an event name
NotBlank(line) == line # << >>
ScanBlock(raw) ==
    LET lines == SelectSeq([i \in 1..Len(raw) |-> TrimSpace(raw[i])], NotBlank)
        event == parseEvent(lines)
    IN  [event |-> event, sent |-> (event.Data # << >> \/ event.Event # << >>)]

\* types.StreamReader: readEvent trims each line, drops comment lines and
\* collects the rest; parseEvent keeps the payload of the last data line
IsNoComment(line) == ~HasPrefix(line, << ":" >>)
ReaderParseLine(event, line) ==
    IF HasPrefix(line, DataPrefix)
    THEN [event EXCEPT !.Data = TrimPrefix(line, DataPrefix)]
    ELSE IF HasPrefix(line, EventPrefix)
         THEN [event EXCEPT !.Event = TrimPrefix(line, EventPrefix)]
    ELSE IF HasPrefix(line, IDPrefix)
         THEN [event EXCEPT !.ID = TrimPrefix(line, IDPrefix)]
    ELSE IF HasPrefix(line, RetryPrefix)
         THEN [event EXCEPT !.Retry = Sscanf(TrimPrefix(line, RetryPrefix), event.Retry)]
    ELSE event
RECURSIVE ReaderParseLines(_, _)
ReaderParseLines(event, lines) ==
    IF lines = << >> THEN event
    ELSE ReaderParseLines(ReaderParseLine(event, Head(lines)), Tail(lines))
readEvent(raw) ==
    LET trimmed == SelectSeq([i \in 1..Len(raw) |-> TrimSpace(raw[i])], NotBlank)
    IN  ReaderParseLines(ZeroEvent, SelectSeq(trimmed, IsNoComment))

ParseCalls ==
    { [fn |-> "parseEvent", lines |-> b] :
        b \in UNION { [1..n -> RawLines] : n \in 1..MaxLines } }

\* the pump decodes one block of lines; the types package's reader decodes
\* the same block
ParseEventCall ==
    /\ call.fn = "parseEvent"
    /\ ret = NoRet
    /\ ret' = [fn |-> "parseEvent", pump |-> ScanBlock(call.lines),
                reader |-> readEvent(call.lines)]
    /\ UNCHANGED <<call, streamVars, retryVars, clientVars, objectVars>>

\* --- The proxy's message endpoint. A request is the HTTP request as the
\* handler meets it: wire says what parseClaudeRequest runs into before it
\* has a ClaudeRequest, the other fields are the unmarshalled body.
\* temperature and top_p are held in tenths.
DefaultModel == "claude-3-sonnet-20240229"
RoleUser == "user"
RoleAssistant == "assistant"
RoleSystem == "system"
ContentTypeText == "text"
ContentTypeImage == "image"
\* 1.0 in tenths
One == 10
\* the ceiling of max_tokens in ValidateRequest
MaxTokensCeiling == 200000

NilError == [kind |-> "nil"]
\* fmt.Errorf(...): an error that is no *ClaudeError
PlainError == [kind |-> "plain"]
NewClaudeError(type) == [kind |-> "claude", type |-> type]
NewInvalidRequestError == NewClaudeError("invalid_request_error")
NewAPIError == NewClaudeError("api_error")

Item(type, text, url, source) ==
    [Type |-> type, Text |-> text, ImageURL |-> url, Source |-> source]
ClaudeMessage(role, content) == [Role |-> role, Content |-> content]

\* content items: a text, an empty text, an image by URL, an inline image,
\* an image with neither, and a block of a type the proxy does not know
ItemPool ==
    { Item(ContentTypeText, "hi", "", FALSE), Item(ContentTypeText, "", "", FALSE),
      Item(ContentTypeImage, "", "http://img", FALSE),
      Item(ContentTypeImage, "", "", TRUE), Item(ContentTypeImage, "", "", FALSE),
      Item("tool_use", "", "", FALSE) }
Contents == UNION { [1..n -> ItemPool] : n \in 0..MaxContent }
MessagePool == { ClaudeMessage(r, c) : r \in {RoleUser, RoleAssistant, RoleSystem}, c \in Contents }
GoodMessage == ClaudeMessage(RoleUser, << Item(ContentTypeText, "hi", "", FALSE) >>)
BasicMessages ==
    { GoodMessage,
      ClaudeMessage(RoleAssistant, << Item(ContentTypeText, "yo", "", FALSE) >>),
      ClaudeMessage(RoleSystem, << Item(ContentTypeText, "be", "", FALSE) >>),
      ClaudeMessage(RoleUser, << >>) }
BasicLists == UNION { [1..n -> BasicMessages] : n \in 0..MaxMessages }
PoolLists ==
    { << m >> : m \in MessagePool } \cup { << GoodMessage, m >> : m \in MessagePool }
        \cup { << m, GoodMessage >> : m \in MessagePool }

ClaudeRequest(wire, model, maxTokens, messages, system, temperature, topP, topK, stream) ==
    [wire |-> wire, Model |-> model, MaxTokens |-> maxTokens, Messages |-> messages,
     System |-> system, Temperature |-> temperature, TopP |-> topP, TopK |-> topK,
     Stream |-> stream]

Models == {"", "opus"}
Systems == {"", "sys"}
\* every combination of the scalar fields, over the basic message lists
ScalarRequests ==
    { ClaudeRequest("ok", m, mt, ms, sy, te, tp, tk, st) :
        m \in Models, mt \in {0, 1, MaxTokensCeiling, MaxTokensCeiling + 1},
        ms \in BasicLists, sy \in Systems, te \in {-1, 0, 5, One, One + 1},
        tp \in {-1, 0, One, One + 1}, tk \in {-1, 0}, st \in BOOLEAN }
\* every message of the pool, alone and beside a good message
MessageRequests ==
    { ClaudeRequest("ok", m, 1, ms, sy, 5, One, 0, st) :
        m \in Models, ms \in PoolLists, sy \in Systems, st \in BOOLEAN }
\* requests parseClaudeRequest turns down: another Content-Type, a body
\* above MaxRequestSize, a body that is no JSON of a ClaudeRequest
UnparsedRequests ==
    { ClaudeRequest(w, m, mt, << GoodMessage >>, "", 5, One, 0, FALSE) :
        w \in {"content-type", "too-large", "bad-json"}, m \in Models, mt \in {0, 1} }
Requests == ScalarRequests \cup MessageRequests \cup UnparsedRequests

\* ClaudeRequest.SetDefaults
SetDefaults(r) ==
    [r EXCEPT !.Model = IF @ = "" THEN DefaultModel ELSE @,
              !.Temperature = IF @ = 0 THEN One ELSE @,
              !.TopP = IF @ = 0 THEN One ELSE @]

\* MessageHandler.parseClaudeRequest
parseClaudeRequest(r) ==
    IF r.wire # "ok" THEN [err |-> PlainError, req |-> r]
    ELSE [err |-> NilError, req |-> SetDefaults(r)]

\* ClaudeToNewAPIConverter.validateContent
validateContent(content) ==
    IF content.Type = ContentTypeText
    THEN IF content.Text = "" THEN NewInvalidRequestError ELSE NilError
    ELSE IF content.Type = ContentTypeImage
         THEN IF content.ImageURL = "" /\ ~content.Source
              THEN NewInvalidRequestError ELSE NilError
    ELSE NewInvalidRequestError

\* ClaudeToNewAPIConverter.validateMessage
validateMessage(msg) ==
    IF msg.Role # RoleUser /\ msg.Role # RoleAssistant THEN NewInvalidRequestError
    ELSE IF Len(msg.Content) = 0 THEN NewInvalidRequestError
    ELSE IF \E j \in 1..Len(msg.Content) : validateContent(msg.Content[j]) # NilError
         THEN NewInvalidRequestError
    ELSE NilError

\* ValidateRequest without the ceiling on max_tokens
ValidateRequestNoCeiling(r) ==
    IF r.Model = "" THEN NewInvalidRequestError
    ELSE IF r.MaxTokens <= 0 THEN NewInvalidRequestError
    ELSE IF Len(r.Messages) = 0 THEN NewInvalidRequestError
    ELSE IF r.Temperature < 0 \/ r.Temperature > One THEN NewInvalidRequestError
    ELSE IF r.TopP < 0 \/ r.TopP > One THEN NewInvalidRequestError
    ELSE IF r.TopK < 0 THEN NewInvalidRequestError
    ELSE IF \E i \in 1..Len(r.Messages) : validateMessage(r.Messages[i]) # NilError
         THEN NewInvalidRequestError
    ELSE NilError

\* ClaudeToNewAPIConverter.ValidateRequest
ValidateRequest(r) ==
    IF r.Model = "" THEN NewInvalidRequestError
    ELSE IF r.MaxTokens <= 0 THEN NewInvalidRequestError
    ELSE IF r.MaxTokens > MaxTokensCeiling THEN NewInvalidRequestError
    ELSE IF Len(r.Messages) = 0 THEN NewInvalidRequestError
    ELSE IF r.Temperature < 0 \/ r.Temperature > One THEN NewInvalidRequestError
    ELSE IF r.TopP < 0 \/ r.TopP > One THEN NewInvalidRequestError
    ELSE IF r.TopK < 0 THEN NewInvalidRequestError
    ELSE IF \E i \in 1..Len(r.Messages) : validateMessage(r.Messages[i]) # NilError
         THEN NewInvalidRequestError
    ELSE NilError

\* ClaudeRequest.Validate, the check ConvertRequest makes
Validate(r) ==
    IF r.Model = "" THEN NewInvalidRequestError
    ELSE IF r.MaxTokens <= 0 THEN NewInvalidRequestError
    ELSE IF Len(r.Messages) = 0 THEN NewInvalidRequestError
    ELSE IF \E i \in 1..Len(r.Messages) :
                \/ r.Messages[i].Role # RoleUser /\ r.Messages[i].Role # RoleAssistant
                \/ Len(r.Messages[i].Content) = 0
         THEN NewInvalidRequestError
    ELSE NilError

\* one types.MessageContent of a backend message
MessageContent(item) ==
    IF item.Type = ContentTypeText
    THEN [Type |-> "text", Text |-> item.Text, ImageURL |-> ""]
    ELSE [Type |-> "image_url", Text |-> "", ImageURL |-> item.ImageURL]
IsConverted(item) ==
    item.Type = ContentTypeText \/ (item.Type = ContentTypeImage /\ item.ImageURL # "")
IsKnownType(item) == item.Type = ContentTypeText \/ item.Type = ContentTypeImage

\* ClaudeToNewAPIConverter.convertContent: a single text is passed on as a
\* string, anything else as an array that leaves out images without a URL
convertContent(content) ==
    IF Len(content) = 0 THEN [err |-> PlainError, value |-> ""]
    ELSE IF Len(content) = 1 /\ content[1].Type = ContentTypeText
         THEN [err |-> NilError, value |-> content[1].Text]
    ELSE IF \E j \in 1..Len(content) : ~IsKnownType(content[j])
         THEN [err |-> PlainError, value |-> ""]
    ELSE LET kept == SelectSeq(content, IsConverted)
         IN  [err |-> NilError, value |-> [j \in 1..Len(kept) |-> MessageContent(kept[j])]]

\* ClaudeToNewAPIConverter.convertMessage
convertMessage(msg) ==
    IF msg.Role \notin {RoleUser, RoleAssistant, RoleSystem}
    THEN [err |-> PlainError, msg |-> [Role |-> "", Content |-> ""]]
    ELSE LET c == convertContent(msg.Content)
         IN  IF c.err # NilError
             THEN [err |-> c.err, msg |-> [Role |-> "", Content |-> ""]]
             ELSE [err |-> NilError, msg |-> [Role |-> msg.Role, Content |-> c.value]]

\* types.NewSystemMessage
NewSystemMessage(content) == [Role |-> "system", Content |-> content]

\* convertMessages that never adds the system message
convertMessagesNoSystem(claudeMessages, systemMessage) ==
    IF \E i \in 1..Len(claudeMessages) : convertMessage(claudeMessages[i]).err # NilError
    THEN [err |-> PlainError, messages |-> << >>]
    ELSE [err |-> NilError,
          messages |-> [i \in 1..Len(claudeMessages) |-> convertMessage(claudeMessages[i]).msg]]

\* ClaudeToNewAPIConverter.convertMessages
convertMessages(claudeMessages, systemMessage) ==
    IF \E i \in 1..Len(claudeMessages) : convertMessage(claudeMessages[i]).err # NilError
    THEN [err |-> PlainError, messages |-> << >>]
    ELSE [err |-> NilError,
          messages |->
              (IF systemMessage # "" THEN << NewSystemMessage(systemMessage) >> ELSE << >>)
                  \o [i \in 1..Len(claudeMessages) |-> convertMessage(claudeMessages[i]).msg]]

\* ClaudeToNewAPIConverter.mapModel over the names the requests use
mapModel(claudeModel) ==
    IF claudeModel = "opus" THEN "claude-3-opus-20240229"
    ELSE IF claudeModel = "sonnet" THEN "claude-3-sonnet-20240229"
    ELSE IF claudeModel = DefaultModel THEN "claude-3-sonnet-20240229"
    ELSE claudeModel

\* ClaudeToNewAPIConverter.ConvertRequest: the backend messages and the
\* model option
ConvertRequest(r) ==
    IF Validate(r) # NilError
    THEN [err |-> Validate(r), messages |-> << >>, model |-> ""]
    ELSE LET m == convertMessages(r.Messages, r.System)
         IN  IF m.err # NilError
             THEN [err |-> PlainError, messages |-> << >>, model |-> ""]
             ELSE [err |-> NilError, messages |-> m.messages,
                   model |-> IF r.Model # "" THEN mapModel(r.Model) ELSE ""]

\* what the client gets and what the backend was asked: sendErrorResponse
\* keeps a *ClaudeError and wraps any other error as api_error;
\* sendStreamError always writes an api_error event
NoBackend == [calls |-> 0, messages |-> << >>, model |-> ""]
sendErrorResponse(statusCode, err, backend) ==
    [fn |-> "HandleMessage", status |-> statusCode,
     type |-> IF err.kind = "claude" THEN err.type ELSE "api_error",
     translated |-> backend.calls > 0, backend |-> backend]
streamErrorResponse(backend) ==
    [fn |-> "HandleMessage", status |-> 200, type |-> "api_error",
     translated |-> backend.calls > 0, backend |-> backend]
sendOK(backend) ==
    [fn |-> "HandleMessage", status |-> 200, type |-> "",
     translated |-> TRUE, backend |-> backend]

\* handleNormalMessage and handleStreamMessage, the backend answering with
\* outcome "ok", "error" or (non-streaming) a response ConvertResponse
\* turns down
handleMessage(r, outcome) ==
    LET conv == ConvertRequest(r)
        backend == [calls |-> 1, messages |-> conv.messages, model |-> conv.model]
    IN  IF conv.err # NilError
        THEN IF r.Stream THEN streamErrorResponse(NoBackend)
             ELSE sendErrorResponse(400, conv.err, NoBackend)
        ELSE IF outcome = "ok" THEN sendOK(backend)
        ELSE IF r.Stream THEN streamErrorResponse(backend)
        ELSE sendErrorResponse(500, PlainError, backend)

\* MessageHandler.HandleMessage
HandleMessage(req, outcome) ==
    LET parsed == parseClaudeRequest(req)
    IN  IF parsed.err # NilError THEN sendErrorResponse(400, parsed.err, NoBackend)
        ELSE IF ValidateRequest(parsed.req) # NilError
             THEN sendErrorResponse(400, ValidateRequest(parsed.req), NoBackend)
        ELSE handleMessage(parsed.req, outcome)

MessageCalls == { [fn |-> "HandleMessage", req |-> r] : r \in Requests }

HandleMessageCall ==
    /\ call.fn = "HandleMessage"
    /\ ret = NoRet
    /\ \E outcome \in {"ok", "error", "bad-response"} :
           ret' = HandleMessage(call.req, outcome)
    /\ UNCHANGED <<call, streamVars, retryVars, clientVars, objectVars>>

\* --- Model names in full: a name is a sequence of tokens (pieces of the
\* lower-case spelling that the table's keys are made of) and a flag that
\* says whether the spelling has an upper-case letter somewhere
Name(tokens) == [tokens |-> tokens, up |-> FALSE]
Upper(tokens) == [tokens |-> tokens, up |-> TRUE]
ToLower(n) == [n EXCEPT !.up = FALSE]
\* strings.Contains on the lower-case spellings
Contains(s, pattern) ==
    \E i \in 0..(Len(s) - Len(pattern)) : SubSeq(s, i + 1, i + Len(pattern)) = pattern

Opus20240229 == << "claude-3-", "opus", "-20240229" >>
Sonnet20240229 == << "claude-3-", "sonnet", "-20240229" >>
Haiku20240307 == << "claude-3-", "haiku", "-20240307" >>
Sonnet20241022 == << "claude-3-", "5-", "sonnet", "-20241022" >>
Haiku20241022 == << "claude-3-", "5-", "haiku", "-20241022" >>

\* a table in which one dated id is mapped to another model's id
getModelMappingChained ==
    { << Opus20240229, Sonnet20240229 >>, << Sonnet20240229, Haiku20240307 >>,
      << Haiku20240307, Haiku20240307 >>, << Sonnet20241022, Sonnet20241022 >>,
      << Haiku20241022, Haiku20241022 >>,
      << << "claude-3-", "opus" >>, Opus20240229 >>,
      << << "claude-3-", "sonnet" >>, Sonnet20240229 >>,
      << << "claude-3-", "haiku" >>, Haiku20240307 >>,
      << << "claude-3.5-", "sonnet" >>, Sonnet20241022 >>,
      << << "claude-3.5-", "haiku" >>, Haiku20241022 >>,
      << << "opus" >>, Opus20240229 >>, << << "sonnet" >>, Sonnet20240229 >>,
      << << "haiku" >>, Haiku20240307 >> }

\* getModelMapping: the pairs << alias, backend model id >>
getModelMapping ==
    { << Opus20240229, Opus20240229 >>, << Sonnet20240229, Sonnet20240229 >>,
      << Haiku20240307, Haiku20240307 >>, << Sonnet20241022, Sonnet20241022 >>,
      << Haiku20241022, Haiku20241022 >>,
      << << "claude-3-", "opus" >>, Opus20240229 >>,
      << << "claude-3-", "sonnet" >>, Sonnet20240229 >>,
      << << "claude-3-", "haiku" >>, Haiku20240307 >>,
      << << "claude-3.5-", "sonnet" >>, Sonnet20241022 >>,
      << << "claude-3.5-", "haiku" >>, Haiku20241022 >>,
      << << "opus" >>, Opus20240229 >>, << << "sonnet" >>, Sonnet20240229 >>,
      << << "haiku" >>, Haiku20240307 >> }

ExactMatches(n) == { e \in getModelMapping : ~n.up /\ e[1] = n.tokens }
FuzzyMatches(n) == { e \in getModelMapping : Contains(n.tokens, e[1]) }

\* ClaudeToNewAPIConverter.mapModel on a full name: the results it can
\* return. The fuzzy loop ranges over a Go map, whose order is not fixed, so
\* any matching pattern can be the one that answers; without a match the
\* name is returned after it was overwritten by its lower-case spelling.
mapModelResults(n) ==
    IF ExactMatches(n) # {} THEN { Name(e[2]) : e \in ExactMatches(n) }
    ELSE IF FuzzyMatches(n) # {} THEN { Name(e[2]) : e \in FuzzyMatches(n) }
    ELSE { ToLower(n) }

NameTokens ==
    { "claude-3-", "claude-3.5-", "5-", "opus", "sonnet", "haiku", "-20240229",
      "-20240307", "-20241022", "large", "gpt-unknown-9000" }
\* the aliases of the README's two lists and the table's keys
ListedLarge ==
    { Opus20240229, Sonnet20240229, Sonnet20241022, << "claude-3-", "opus" >>,
      << "claude-3-", "sonnet" >>, << "claude-3.5-", "sonnet" >>, << "opus" >>,
      << "sonnet" >>, << "large" >>, << "big" >> }
ListedSmall ==
    { Haiku20240307, Haiku20241022, << "claude-3-", "haiku" >>,
      << "claude-3.5-", "haiku" >>, << "haiku" >>, << "small" >>, << "mini" >> }
NameSeqs ==
    UNION { [1..n -> NameTokens] : n \in 0..MaxNameLen } \cup ListedLarge \cup ListedSmall
ModelNames == { Name(s) : s \in NameSeqs } \cup { Upper(s) : s \in NameSeqs \ { << >> } }

MapModelCalls == { [fn |-> "mapModel", name |-> n] : n \in ModelNames }

\* the name is resolved, and the result is resolved once more
MapModelCall ==
    /\ call.fn = "mapModel"
    /\ ret = NoRet
    /\ \E first \in mapModelResults(call.name) :
           \E second \in mapModelResults(first) :
               ret' = [fn |-> "mapModel", first |-> first, second |-> second]
    /\ UNCHANGED <<call, streamVars, retryVars, clientVars, objectVars>>

\* --- The non-streaming answer: the backend's ChatCompletionResponse and
\* its translation. A message's Content is an interface{}: a string, a
\* []types.MessageContent, or anything else (nil, a decoded JSON array).
ErrTypeInvalidRequest == "invalid_request_error"
ErrTypeAuthentication == "authentication_error"
ErrTypeRateLimit == "rate_limit_error"
ErrTypeAPIError == "api_error"
NoErrorResponse == [Type |-> "none", Message |-> ""]
ErrorResponses ==
    { [Type |-> t, Message |-> m] :
        t \in {ErrTypeInvalidRequest, ErrTypeAuthentication, ErrTypeRateLimit,
               ErrTypeAPIError, "permission_error", "timeout_error"},
        m \in {"denied", "slow down"} }

StringContent(text) == [kind |-> "string", text |-> text, items |-> << >>]
ArrayContent(items) == [kind |-> "array", text |-> "", items |-> items]
OtherContent == [kind |-> "other", text |-> "", items |-> << >>]
ResponseItems ==
    { [Type |-> "text", Text |-> "a", ImageURL |-> ""],
      [Type |-> "text", Text |-> "", ImageURL |-> ""],
      [Type |-> "image_url", Text |-> "", ImageURL |-> "http://img"],
      [Type |-> "image_url", Text |-> "", ImageURL |-> ""],
      [Type |-> "input_audio", Text |-> "", ImageURL |-> ""] }
ResponseContents ==
    { StringContent("hi"), StringContent(""), OtherContent }
        \cup { ArrayContent(s) : s \in UNION { [1..n -> ResponseItems] : n \in 0..MaxItems } }
Choice(content, finishReason) ==
    [Message |-> [Content |-> content], FinishReason |-> finishReason]
Choices == { Choice(c, f) : c \in ResponseContents, f \in FinishReasons \cup {"", "eos"} }
SecondChoice == Choice(StringContent("second"), "length")
ChatCompletionResponse(error, choices, usage) ==
    [Error |-> error, Choices |-> choices, Usage |-> usage]
TokenUsages == { [PromptTokens |-> 5, CompletionTokens |-> 7],
                 [PromptTokens |-> 0, CompletionTokens |-> 0] }
Responses ==
    { ChatCompletionResponse(NoErrorResponse, cs, u) :
        cs \in { << >> } \cup { << c >> : c \in Choices }
                  \cup { << c, SecondChoice >> : c \in Choices },
        u \in TokenUsages }
    \cup { ChatCompletionResponse(e, cs, [PromptTokens |-> 0, CompletionTokens |-> 0]) :
             e \in ErrorResponses, cs \in { << >>, << SecondChoice >> } }

\* ChatMessage.GetTextContent
GetTextContent(content) ==
    IF content.kind = "string" THEN content.text
    ELSE IF content.kind = "array"
              /\ \E j \in 1..Len(content.items) : content.items[j].Type = "text"
         THEN LET first == CHOOSE j \in 1..Len(content.items) :
                               /\ content.items[j].Type = "text"
                               /\ \A k \in 1..(j - 1) : content.items[k].Type # "text"
              IN  content.items[first].Text
    ELSE ""

TextItem(text) == Item(ContentTypeText, text, "", FALSE)
ImageItem(url) == Item(ContentTypeImage, "", url, FALSE)
IsRepresentable(item) ==
    \/ item.Type = "text" /\ item.Text # ""
    \/ item.Type = "image_url" /\ item.ImageURL # ""
ContentItemOf(item) ==
    IF item.Type = "text" THEN TextItem(item.Text) ELSE ImageItem(item.ImageURL)

\* convertContent without the empty text block for an empty list
convertResponseContentBare(content) ==
    IF content.kind = "string"
    THEN IF content.text # "" THEN << TextItem(content.text) >> ELSE << >>
    ELSE IF content.kind = "array"
         THEN LET kept == SelectSeq(content.items, IsRepresentable)
              IN  [j \in 1..Len(kept) |-> ContentItemOf(kept[j])]
    ELSE IF GetTextContent(content) # "" THEN << TextItem(GetTextContent(content)) >>
    ELSE << >>

\* NewAPIToClaudeConverter.convertContent
convertResponseContent(content) ==
    LET blocks ==
            IF content.kind = "string"
            THEN IF content.text # "" THEN << TextItem(content.text) >> ELSE << >>
            ELSE IF content.kind = "array"
                 THEN LET kept == SelectSeq(content.items, IsRepresentable)
                      IN  [j \in 1..Len(kept) |-> ContentItemOf(kept[j])]
            ELSE IF GetTextContent(content) # ""
                 THEN << TextItem(GetTextContent(content)) >>
            ELSE << >>
    IN  IF Len(blocks) = 0 THEN << TextItem("") >> ELSE blocks

ClaudeErrorOf(type, message) == [kind |-> "claude", type |-> type, message |-> message]

\* convertError that drops the backend's message
convertErrorNoMessage(err) ==
    IF err.Type = ErrTypeInvalidRequest THEN ClaudeErrorOf("invalid_request_error", "")
    ELSE IF err.Type = ErrTypeAuthentication THEN ClaudeErrorOf("authentication_error", "")
    ELSE IF err.Type = ErrTypeRateLimit THEN ClaudeErrorOf("rate_limit_error", "")
    ELSE ClaudeErrorOf("api_error", "")

\* NewAPIToClaudeConverter.convertError
convertError(err) ==
    IF err.Type = ErrTypeInvalidRequest
    THEN ClaudeErrorOf("invalid_request_error", err.Message)
    ELSE IF err.Type = ErrTypeAuthentication
         THEN ClaudeErrorOf("authentication_error", err.Message)
    ELSE IF err.Type = ErrTypeRateLimit
         THEN ClaudeErrorOf("rate_limit_error", err.Message)
    ELSE ClaudeErrorOf("api_error", err.Message)

NoClaudeResponse == [Type |-> "none"]

\* ConvertResponse that takes the last choice
ConvertResponseLastChoice(newAPIResp, originalModel) ==
    IF newAPIResp.Error # NoErrorResponse
    THEN [err |-> convertError(newAPIResp.Error), resp |-> NoClaudeResponse]
    ELSE IF Len(newAPIResp.Choices) = 0
         THEN [err |-> PlainError, resp |-> NoClaudeResponse]
    ELSE LET choice == newAPIResp.Choices[Len(newAPIResp.Choices)]
         IN  [err |-> NilError,
              resp |-> [Type |-> "message", Role |-> RoleAssistant,
                        Content |-> convertResponseContent(choice.Message.Content),
                        Model |-> originalModel,
                        StopReason |-> mapStopReason(choice.FinishReason),
                        Usage |-> [InputTokens |-> newAPIResp.Usage.PromptTokens,
                                   OutputTokens |-> newAPIResp.Usage.CompletionTokens]]]

\* NewAPIToClaudeConverter.ConvertResponse
ConvertResponse(newAPIResp, originalModel) ==
    IF newAPIResp.Error # NoErrorResponse
    THEN [err |-> convertError(newAPIResp.Error), resp |-> NoClaudeResponse]
    ELSE IF Len(newAPIResp.Choices) = 0
         THEN [err |-> PlainError, resp |-> NoClaudeResponse]
    ELSE LET choice == newAPIResp.Choices[1]
         IN  [err |-> NilError,
              resp |-> [Type |-> "message", Role |-> RoleAssistant,
                        Content |-> convertResponseContent(choice.Message.Content),
                        Model |-> originalModel,
                        StopReason |-> mapStopReason(choice.FinishReason),
                        Usage |-> [InputTokens |-> newAPIResp.Usage.PromptTokens,
                                   OutputTokens |-> newAPIResp.Usage.CompletionTokens]]]

\* what ChatService.CreateChatCompletion meets: the transport fails with an
\* error of some kind, or a body arrives
BackendErrorKinds == {"authentication", "invalid-parameters", "rate-limit", "service"}
BackendOutcomes ==
    { [kind |-> "error", cause |-> k, resp |-> ChatCompletionResponse(NoErrorResponse, << >>,
                                                  [PromptTokens |-> 0, CompletionTokens |-> 0])] :
        k \in BackendErrorKinds }
    \cup { [kind |-> "body", cause |-> "", resp |-> r] : r \in Responses }

\* ChatService.CreateChatCompletion: every failure, an error object in the
\* body included, is returned as a fmt.Errorf error
CreateChatCompletion(outcome) ==
    IF outcome.kind = "error" \/ outcome.resp.Error # NoErrorResponse
    THEN [err |-> PlainError, resp |-> outcome.resp]
    ELSE [err |-> NilError, resp |-> outcome.resp]

\* MessageHandler.handleNormalMessage for a request that passed
\* ValidateRequest: what the client gets, and how often the backend was called
handleNormalMessage(r, outcome) ==
    LET conv == ConvertRequest(r)
        sdk == CreateChatCompletion(outcome)
        answer == ConvertResponse(sdk.resp, r.Model)
    IN  IF conv.err # NilError
        THEN [fn |-> "handleNormalMessage", status |-> 400,
              type |-> sendErrorResponse(400, conv.err, NoBackend).type,
              body |-> NoClaudeResponse, calls |-> 0]
        ELSE IF sdk.err # NilError
             THEN [fn |-> "handleNormalMessage", status |-> 500,
                   type |-> sendErrorResponse(500, sdk.err, NoBackend).type,
                   body |-> NoClaudeResponse, calls |-> 1]
        ELSE IF answer.err # NilError
             THEN [fn |-> "handleNormalMessage", status |-> 500,
                   type |-> sendErrorResponse(500, answer.err, NoBackend).type,
                   body |-> NoClaudeResponse, calls |-> 1]
        ELSE [fn |-> "handleNormalMessage", status |-> 200, type |-> "",
              body |-> answer.resp, calls |-> 1]

\* Scenario A's request, after parseClaudeRequest
ScenarioA ==
    SetDefaults(ClaudeRequest("ok", "sonnet", 100, << GoodMessage >>, "", 0, 0, 0, FALSE))

ConvertResponseCalls ==
    { [fn |-> "ConvertResponse", resp |-> r, model |-> m] :
        r \in Responses, m \in {"sonnet"} }
NormalMessageCalls ==
    { [fn |-> "handleNormalMessage", req |-> ScenarioA, outcome |-> o] : o \in BackendOutcomes }

ConvertResponseCall ==
    /\ call.fn = "ConvertResponse"
    /\ ret = NoRet
    /\ ret' = [fn |-> "ConvertResponse", out |-> ConvertResponse(call.resp, call.model)]
    /\ UNCHANGED <<call, streamVars, retryVars, clientVars, objectVars>>

NormalMessageCall ==
    /\ call.fn = "handleNormalMessage"
    /\ ret = NoRet
    /\ ret' = handleNormalMessage(call.req, call.outcome)
    /\ UNCHANGED <<call, streamVars, retryVars, clientVars, objectVars>>

BackoffCalls == { [fn |-> "BackoffDelay", retryCount |-> k] : k \in 0..MaxRetryCount }

BackoffDelayCall ==
    /\ call.fn = "BackoffDelay"
    /\ ret = NoRet
    /\ ret' = [fn |-> "BackoffDelay", delay |-> BackoffDelay(call.retryCount)]
    /\ UNCHANGED <<call, streamVars, retryVars, clientVars, objectVars>>

\* --- ChatService.TruncateMessages (part_002): a message is its role and
\* its text; len is len(message.GetTextContent())
ChatRoleSystem == "system"
HistoryMessages ==
    { [Role |-> r, Text |-> t.text, len |-> t.len] :
        r \in {ChatRoleSystem, "user", "assistant"},
        t \in {[text |-> "hi", len |-> 2], [text |-> "forty characters", len |-> 40]} }
Histories == UNION { [1..n -> HistoryMessages] : n \in 0..MaxHistory }
TokenLimits == {0, 10, 25, 40, 1000}

\* CountTokens: len(content)/4 + 10 for every message
RECURSIVE CountTokens(_)
CountTokens(messages) ==
    IF messages = << >> THEN 0
    ELSE (Head(messages).len \div 4) + 10 + CountTokens(Tail(messages))

IsSystem(m) == m.Role = ChatRoleSystem
IsOther(m) == m.Role # ChatRoleSystem

\* the loop of TruncateMessages from index i down: stop at the first message
\* that does not fit, else put it in front of the result
RECURSIVE TruncateLoop(_, _, _, _, _)
TruncateLoop(otherMessages, i, currentTokens, availableTokens, res) ==
    IF i < 1 THEN res
    ELSE LET messageTokens == CountTokens(<< otherMessages[i] >>)
         IN  IF currentTokens + messageTokens > availableTokens THEN res
             ELSE TruncateLoop(otherMessages, i - 1, currentTokens + messageTokens,
                               availableTokens, << otherMessages[i] >> \o res)

\* ChatService.TruncateMessages
TruncateMessages(messages, maxTokens) ==
    LET systemMessages == SelectSeq(messages, IsSystem)
        otherMessages == SelectSeq(messages, IsOther)
        availableTokens == maxTokens - CountTokens(systemMessages)
    IN  IF Len(messages) = 0 THEN messages
        ELSE IF availableTokens <= 0 THEN systemMessages
        ELSE TruncateLoop(otherMessages, Len(otherMessages), 0, availableTokens,
                          systemMessages)

TruncateCalls ==
    { [fn |-> "TruncateMessages", messages |-> h, maxTokens |-> t] :
        h \in Histories, t \in TokenLimits }

TruncateMessagesCall ==
    /\ call.fn = "TruncateMessages"
    /\ ret = NoRet
    /\ ret' = [fn |-> "TruncateMessages",
               out |-> TruncateMessages(call.messages, call.maxTokens)]
    /\ UNCHANGED <<call, streamVars, retryVars, clientVars, objectVars>>

\* r can be had from s by deleting elements
RECURSIVE IsSubsequence(_, _)
IsSubsequence(r, s) ==
    IF r = << >> THEN TRUE
    ELSE IF s = << >> THEN FALSE
    ELSE IF Head(r) = Head(s) THEN IsSubsequence(Tail(r), Tail(s))
    ELSE IsSubsequence(r, Tail(s))

Calls == BackoffCalls \cup ParseCalls \cup MessageCalls \cup MapModelCalls
             \cup ConvertResponseCalls \cup NormalMessageCalls \cup TruncateCalls

InitCalls ==
    /\ call \in Calls
    /\ ret = NoRet
    /\ ObjectsIdle
    /\ StreamIdle
    /\ RetryIdle
    /\ ClientIdle

NextCalls ==
    \/ BackoffDelayCall
    \/ ParseEventCall
    \/ HandleMessageCall
    \/ MapModelCall
    \/ ConvertResponseCall
    \/ NormalMessageCall
    \/ TruncateMessagesCall

SpecCalls == InitCalls /\ [][NextCalls]_vars

\* =======================================================================
\* Properties of single calls (checked under SpecCalls)
\* =======================================================================
Returned(fn) == call.fn = fn /\ ret.fn = fn

\* min(2^k, MaxDelaySeconds) over the unbounded integers
MinSeconds(k) ==
    IF k > 30 \/ BaseDelaySeconds * (2^k) > MaxDelaySeconds
    THEN MaxDelaySeconds
    ELSE BaseDelaySeconds * (2^k)

\* C11: for every retry count k >= 0 the backoff delay equals
\* min(base * 2^k, cap) with base 1s and cap 30s, so that every delay lies
\* between base and cap.
C11_DelayIsCappedExponential ==
    Returned("BackoffDelay") =>
        /\ ret.delay = Seconds(MinSeconds(call.retryCount))
        /\ ~Negative64(ret.delay)
        /\ ~Greater64(Seconds(BaseDelaySeconds), ret.delay)
        /\ ~Greater64(ret.delay, Seconds(MaxDelaySeconds))

\* what the event-stream format makes of a block: the payloads of its data
\* lines joined with newlines, and the payload of the last line of each
\* other field
IsDataLine(line) == HasPrefix(line, DataPrefix)
RECURSIVE JoinLines(_)
JoinLines(lines) ==
    IF lines = << >> THEN << >>
    ELSE IF Len(lines) = 1 THEN TrimPrefix(lines[1], DataPrefix)
    ELSE TrimPrefix(lines[1], DataPrefix) \o << LF >> \o JoinLines(Tail(lines))
JoinedData(raw) == JoinLines(SelectSeq(raw, IsDataLine))
RECURSIVE LastField(_, _)
LastField(raw, pre) ==
    IF raw = << >> THEN << >>
    ELSE IF HasPrefix(raw[Len(raw)], pre) THEN TrimPrefix(raw[Len(raw)], pre)
    ELSE LastField(SubSeq(raw, 1, Len(raw) - 1), pre)

\* C17: for each block of lines, the decoded event's data equals the
\* payloads of its data lines joined with a newline, in order, an empty data
\* line contributing an empty segment; event, id and retry lines set the
\* matching fields; comment lines contribute nothing.
C17_DataLinesJoined ==
    Returned("parseEvent") =>
        /\ ret.pump.event.Data = JoinedData(call.lines)
        /\ ret.pump.event.Event = LastField(call.lines, EventPrefix)
        /\ ret.pump.event.ID = LastField(call.lines, IDPrefix)
        /\ ret.pump.event.Retry = Sscanf(LastField(call.lines, RetryPrefix), 0)
        /\ ret.reader.Data = JoinedData(call.lines)

\* the validation rules, read on the request as the client sent it
BadItem(item) ==
    \/ item.Type = ContentTypeText /\ item.Text = ""
    \/ item.Type = ContentTypeImage /\ item.ImageURL = "" /\ ~item.Source
BadMessage(msg) ==
    \/ msg.Role \notin {RoleUser, RoleAssistant}
    \/ Len(msg.Content) = 0
    \/ \E j \in 1..Len(msg.Content) : BadItem(msg.Content[j])
ViolatesRule(r) ==
    \/ r.MaxTokens <= 0
    \/ r.MaxTokens > MaxTokensCeiling
    \/ Len(r.Messages) = 0
    \/ \E i \in 1..Len(r.Messages) : BadMessage(r.Messages[i])
    \/ r.Temperature < 0 \/ r.Temperature > One
    \/ r.TopP < 0 \/ r.TopP > One
Parsed == Returned("HandleMessage") /\ call.req.wire = "ok"

\* C18: a request that violates a validation rule (max_tokens <= 0 or above
\* 200000, no messages, a role other than user/assistant, a message without
\* content blocks, an empty text block, an image block with neither source
\* nor URL, temperature or top_p outside [0,1]) is answered with an
\* invalid_request_error, and no backend call is made for it.
C18_InvalidRequestRejected ==
    (Parsed /\ ViolatesRule(call.req)) =>
        /\ ret.status = 400
        /\ ret.type = "invalid_request_error"
        /\ ret.backend.calls = 0

\* a request whose only fault is max_tokens above the ceiling was turned down
C18_Witness ==
    /\ Parsed
    /\ call.req.MaxTokens = MaxTokensCeiling + 1
    /\ call.req.Model # ""
    /\ call.req.Messages = << GoodMessage >>
    /\ call.req.Temperature = 5 /\ call.req.TopP = One /\ call.req.TopK = 0
    /\ ret.type = "invalid_request_error"
    /\ ret.backend.calls = 0

\* C19: a request whose model field is empty fails with an
\* invalid_request_error and is neither translated nor sent to the backend.
C19_EmptyModelRejected ==
    (Parsed /\ call.req.Model = "") =>
        /\ ret.type = "invalid_request_error"
        /\ ~ret.translated
        /\ ret.backend.calls = 0

\* C20: for a valid request the translator produces one backend message per
\* input message, plus one when the system text is non-empty; the system
\* message comes first and the others follow in input order.
C20_MessageCount ==
    (Returned("HandleMessage") /\ ret.backend.calls = 1) =>
        LET input == call.req.Messages
            sent == ret.backend.messages
            off == IF call.req.System # "" THEN 1 ELSE 0
        IN  /\ Len(sent) = Len(input) + off
            /\ off = 1 => sent[1] = [Role |-> "system", Content |-> call.req.System]
            /\ \A i \in 1..Len(input) :
                   /\ sent[off + i].Role = input[i].Role
                   /\ sent[off + i].Content = convertContent(input[i].Content).value

\* a request with system text and two different messages was translated
C20_Witness ==
    /\ Returned("HandleMessage")
    /\ ret.backend.calls = 1
    /\ call.req.System # ""
    /\ Len(call.req.Messages) = 2
    /\ call.req.Messages[1] # call.req.Messages[2]
    /\ Len(ret.backend.messages) = 3

\* the backend content type a content block maps to
MappedType(item) == IF item.Type = ContentTypeText THEN "text" ELSE "image_url"
IsSingleText(content) == Len(content) = 1 /\ content[1].Type = ContentTypeText

\* C21: for every valid message that is not a single text block the backend
\* message's content is an array with exactly one element per input content
\* block, in order, text mapped to text and image to image-url; a message of
\* exactly one text block becomes a plain string equal to that text.
C21_ContentElementWise ==
    (Returned("HandleMessage") /\ ret.backend.calls = 1) =>
        LET off == IF call.req.System # "" THEN 1 ELSE 0
        IN  \A i \in 1..Len(call.req.Messages) :
                LET blocks == call.req.Messages[i].Content
                    content == ret.backend.messages[off + i].Content
                IN  IF IsSingleText(blocks) THEN content = blocks[1].Text
                    ELSE /\ Len(content) = Len(blocks)
                         /\ \A j \in 1..Len(blocks) : content[j].Type = MappedType(blocks[j])

\* C22: model resolution tries an exact match first, then a case-insensitive
\* substring match, and otherwise returns the input string itself, unchanged
\* character for character, in any letter case.
C22_ResolutionOrder ==
    Returned("mapModel") =>
        LET exact == { e \in getModelMapping : ~call.name.up /\ e[1] = call.name.tokens }
            fuzzy == { e \in getModelMapping : Contains(call.name.tokens, e[1]) }
        IN  IF exact # {} THEN \E e \in exact : ret.first = Name(e[2])
            ELSE IF fuzzy # {} THEN \E e \in fuzzy : ret.first = Name(e[2])
            ELSE ret.first = call.name

CanonicalIds == { Name(e[2]) : e \in getModelMapping }

\* C23: resolution is idempotent: resolving the result of a resolution
\* returns that result, and a canonical id of the table resolves to itself.
C23_ResolutionIdempotent ==
    Returned("mapModel") =>
        /\ ret.second = ret.first
        /\ call.name \in CanonicalIds => ret.first = call.name

\* an alias was resolved to a canonical id other than itself, and resolving
\* that id gave it back
C23_Witness ==
    /\ Returned("mapModel")
    /\ call.name = Name(<< "opus" >>)
    /\ ret.first = Name(Opus20240229)
    /\ ret.second = ret.first

\* C29: every alias the README lists as a large model resolves to
\* gemini-2.5-pro, and every alias it lists as a small model resolves to
\* gpt-4.1-mini.
C29_ReadmeAliases ==
    Returned("mapModel") =>
        /\ (~call.name.up /\ call.name.tokens \in ListedLarge)
               => ret.first = Name(<< "gemini-2.5-pro" >>)
        /\ (~call.name.up /\ call.name.tokens \in ListedSmall)
               => ret.first = Name(<< "gpt-4.1-mini" >>)

HasBody == call.outcome.kind = "body" /\ call.outcome.resp.Error = NoErrorResponse

\* C24: a backend response with zero choices makes the translator return an
\* error and never a client response (otherwise only the first choice is
\* used), and the failed request is surfaced to the client without the
\* backend being called again.
C24_ZeroChoicesIsError ==
    /\ (Returned("ConvertResponse") /\ call.resp.Error = NoErrorResponse) =>
           IF Len(call.resp.Choices) = 0
           THEN ret.out.err # NilError /\ ret.out.resp = NoClaudeResponse
           ELSE /\ ret.out.err = NilError
                /\ ret.out.resp.Content =
                       convertResponseContent(call.resp.Choices[1].Message.Content)
                /\ ret.out.resp.StopReason = mapStopReason(call.resp.Choices[1].FinishReason)
    /\ (Returned("handleNormalMessage") /\ HasBody /\ Len(call.outcome.resp.Choices) = 0) =>
           /\ ret.status = 500
           /\ ret.type = "api_error"
           /\ ret.body = NoClaudeResponse
           /\ ret.calls = 1

\* the handler answered a response without choices
C24_Witness ==
    /\ Returned("handleNormalMessage")
    /\ HasBody
    /\ Len(call.outcome.resp.Choices) = 0
    /\ ret.status = 500
    /\ ret.calls = 1

\* the stop reason the client protocol has for a finish reason
ClaimedStopReason(f) ==
    CASE f = "stop" -> "end_turn"
      [] f = "length" -> "max_tokens"
      [] f = "content_filter" -> "end_turn"
      [] f \in {"tool_calls", "function_call"} -> "tool_use"
      [] f = "" -> "end_turn"
      [] OTHER -> "other"

\* C25: for a non-streaming request the client response's stop_reason is
\* the mapping of the first choice's finish reason and its usage equals the
\* backend's prompt/completion token counts; one choice with finish reason
\* stop and usage {5,7} yields one text block, end_turn and usage {5,7}.
C25_StopReasonAndUsage ==
    (Returned("handleNormalMessage") /\ HasBody /\ Len(call.outcome.resp.Choices) > 0) =>
        LET first == call.outcome.resp.Choices[1]
        IN  /\ ret.status = 200
            /\ ClaimedStopReason(first.FinishReason) # "other"
                   => ret.body.StopReason = ClaimedStopReason(first.FinishReason)
            /\ ret.body.Usage.InputTokens = call.outcome.resp.Usage.PromptTokens
            /\ ret.body.Usage.OutputTokens = call.outcome.resp.Usage.CompletionTokens
            /\ first.Message.Content = StringContent("hi")
                   => ret.body.Content = << TextItem("hi") >>

\* Scenario A: one choice "hi" with finish reason stop and usage {5,7}
C25_Witness ==
    /\ Returned("handleNormalMessage")
    /\ HasBody
    /\ call.outcome.resp.Choices = << Choice(StringContent("hi"), "stop") >>
    /\ call.outcome.resp.Usage = [PromptTokens |-> 5, CompletionTokens |-> 7]
    /\ ret.body.StopReason = "end_turn"
    /\ ret.body.Usage = [InputTokens |-> 5, OutputTokens |-> 7]
    /\ Len(ret.body.Content) = 1

\* C26: when the backend call of a non-streaming request fails, status and
\* error type follow the error kind: authentication 401
\* authentication_error, invalid parameters 400 invalid_request_error, rate
\* limiting 429 rate_limit_error, service error 500 api_error.
C26_StatusFromErrorKind ==
    (Returned("handleNormalMessage") /\ call.outcome.kind = "error") =>
        LET k == call.outcome.cause
        IN  /\ k = "authentication" => ret.status = 401 /\ ret.type = "authentication_error"
            /\ k = "invalid-parameters" => ret.status = 400 /\ ret.type = "invalid_request_error"
            /\ k = "rate-limit" => ret.status = 429 /\ ret.type = "rate_limit_error"
            /\ k = "service" => ret.status = 500 /\ ret.type = "api_error"

\* C27: a backend error of type invalid-request, authentication or
\* rate-limit maps to the corresponding client error kind and every other
\* backend error to api_error; the message is preserved.
C27_ErrorMapping ==
    (Returned("ConvertResponse") /\ call.resp.Error # NoErrorResponse) =>
        LET e == call.resp.Error
        IN  /\ ret.out.err.kind = "claude"
            /\ ret.out.err.type =
                   (IF e.Type \in {"invalid_request_error", "authentication_error",
                                   "rate_limit_error"}
                    THEN e.Type ELSE "api_error")
            /\ ret.out.err.message = e.Message

\* an unclassified backend error came out as api_error with its message
C27_Witness ==
    /\ Returned("ConvertResponse")
    /\ call.resp.Error = [Type |-> "permission_error", Message |-> "denied"]
    /\ ret.out.err = ClaudeErrorOf("api_error", "denied")

NothingRepresentable(content) ==
    \/ content.kind = "string" /\ content.text = ""
    \/ content.kind = "array" /\ \A j \in 1..Len(content.items) : ~IsRepresentable(content.items[j])
    \/ content.kind = "other"

\* C28: for every backend message (string content, content array, empty or
\* unrepresentable content) the translated content-block list has at least
\* one block; when nothing is representable it is exactly one empty text
\* block.
C28_ContentNeverEmpty ==
    (Returned("ConvertResponse") /\ ret.out.err = NilError) =>
        /\ Len(ret.out.resp.Content) >= 1
        /\ NothingRepresentable(call.resp.Choices[1].Message.Content)
               => ret.out.resp.Content = << TextItem("") >>

\* a content array without a representable item became one empty text block
C28_Witness ==
    /\ Returned("ConvertResponse")
    /\ ret.out.err = NilError
    /\ call.resp.Choices[1].Message.Content.kind = "array"
    /\ Len(call.resp.Choices[1].Message.Content.items) = 2
    /\ NothingRepresentable(call.resp.Choices[1].Message.Content)
    /\ ret.out.resp.Content = << TextItem("") >>
\* =======================================================================
\* Client: client/client.go, shared by goroutines
\* =======================================================================
\* the configurations UpdateConfig is called with: two valid ones, one
\* without API key, and nil
UpdateArgs ==
    { [DefaultConfig EXCEPT !.APIKey = "new-key", !.Debug = TRUE],
      Config("concurrent-key", "https://other", FALSE),
      DefaultConfig, NilConfig }
Getters == {"GetAPIKey", "GetBaseURL", "IsDebugMode", "GetConfig"}

\* Config.Validate (Timeout, HTTPClient and UserAgent are DefaultConfig's)
ValidateConfig(cfg) == cfg.APIKey # "" /\ cfg.BaseURL # ""
\* UpdateConfig turns down nil only
RejectedNilOnly(cfg) == cfg = NilConfig
\* UpdateConfig: if cfg == nil, and if err := cfg.Validate(); err != nil
Rejected(cfg) == cfg = NilConfig \/ ~ValidateConfig(cfg)

\* Config.Clone
Clone(cfg) == Config(cfg.APIKey, cfg.BaseURL, cfg.Debug)

\* what a read of c.config and its fields can give while another goroutine
\* is writing c.config (a data race): any mixture of fields
RacyConfigs ==
    [APIKey : {a.APIKey : a \in UpdateArgs} \cup {NewClientConfig.APIKey},
     BaseURL : {a.BaseURL : a \in UpdateArgs}, Debug : BOOLEAN]

\* an RLock that does not wait for a writer
CanRLockAlways == TRUE

\* sync.RWMutex.RLock returns when no writer holds the lock or waits for it
CanRLock == muWriter = NoGoroutine /\ muPending = NoGoroutine

\* a goroutine calls one of the getters or UpdateConfig
ClientCall(g) ==
    /\ gpc[g] \in {"idle", "returned"}
    /\ \E op \in Getters \cup {"UpdateConfig"} :
           \E cfg \in (IF op = "UpdateConfig" THEN UpdateArgs ELSE {NilConfig}) :
               /\ gop' = [gop EXCEPT ![g] = op]
               /\ garg' = [garg EXCEPT ![g] = cfg]
    /\ gpc' = [gpc EXCEPT ![g] = "start"]
    /\ gres' = [gres EXCEPT ![g] = NilConfig]
    /\ gerr' = [gerr EXCEPT ![g] = "none"]
    /\ UNCHANGED <<clientConfig, writing, muWriter, muPending, muReaders, installed, transport, services>>

\* c.mu.RLock()
GetterRLock(g) ==
    /\ gpc[g] = "start"
    /\ gop[g] \in Getters
    /\ CanRLock
    /\ muReaders' = muReaders \cup {g}
    /\ gpc' = [gpc EXCEPT ![g] = "rlocked"]
    /\ UNCHANGED <<clientConfig, writing, muWriter, muPending, gop, garg, gres, gerr, installed, transport, services>>

\* return c.config.APIKey (BaseURL, Debug, Clone()): the configuration the
\* getter reads its result from
GetterRead(g) ==
    /\ gpc[g] = "rlocked"
    /\ \E seen \in (IF writing THEN RacyConfigs ELSE {clientConfig}) :
           gres' = [gres EXCEPT ![g] = IF gop[g] = "GetConfig" THEN Clone(seen) ELSE seen]
    /\ gpc' = [gpc EXCEPT ![g] = "read"]
    /\ UNCHANGED <<clientConfig, writing, muWriter, muPending, muReaders, gop, garg, gerr,
                   installed, transport, services>>

\* the deferred c.mu.RUnlock(), and the getter returns
GetterRUnlock(g) ==
    /\ gpc[g] = "read"
    /\ muReaders' = muReaders \ {g}
    /\ gpc' = [gpc EXCEPT ![g] = "returned"]
    /\ UNCHANGED <<clientConfig, writing, muWriter, muPending, gop, garg, gres, gerr, installed, transport, services>>

\* UpdateConfig: cfg == nil and cfg.Validate(), before the lock is taken
UpdateValidate(g) ==
    /\ gpc[g] = "start"
    /\ gop[g] = "UpdateConfig"
    /\ IF Rejected(garg[g])
       THEN /\ gerr' = [gerr EXCEPT ![g] = "error"]
            /\ gpc' = [gpc EXCEPT ![g] = "returned"]
       ELSE /\ gpc' = [gpc EXCEPT ![g] = "validated"]
            /\ gerr' = gerr
    /\ UNCHANGED <<clientConfig, writing, muWriter, muPending, muReaders, gop, garg, gres,
                   installed, transport, services>>

\* c.mu.Lock(), first half: the writer has the writers' mutex and new
\* readers wait for it
UpdateLockPending(g) ==
    /\ gpc[g] = "validated"
    /\ muWriter = NoGoroutine
    /\ muPending = NoGoroutine
    /\ muPending' = g
    /\ gpc' = [gpc EXCEPT ![g] = "pending"]
    /\ UNCHANGED <<clientConfig, writing, muWriter, muReaders, gop, garg, gres, gerr, installed, transport, services>>

\* c.mu.Lock(), second half: the active readers have left
UpdateLocked(g) ==
    /\ gpc[g] = "pending"
    /\ muReaders = {}
    /\ muWriter' = g
    /\ muPending' = NoGoroutine
    /\ gpc' = [gpc EXCEPT ![g] = "locked"]
    /\ UNCHANGED <<clientConfig, writing, muReaders, gop, garg, gres, gerr, installed, transport, services>>

\* c.config = cfg.Clone(): the store begins
UpdateWriteBegin(g) ==
    /\ gpc[g] = "locked"
    /\ writing' = TRUE
    /\ gpc' = [gpc EXCEPT ![g] = "writing"]
    /\ UNCHANGED <<clientConfig, muWriter, muPending, muReaders, gop, garg, gres, gerr,
                   installed, transport, services>>

\* the store is done; part_006's UpdateConfig then closes the transport and
\* builds a new one and new services from the new configuration under the
\* same lock, client.go's UpdateConfig keeps the ones it has
UpdateWriteEnd(g) ==
    /\ gpc[g] = "writing"
    /\ clientConfig' = Clone(garg[g])
    /\ installed' = Clone(garg[g])
    /\ \/ /\ transport' = NewHTTPClient(Clone(garg[g]))
          /\ services' = NewServices(NewHTTPClient(Clone(garg[g])))
       \/ UNCHANGED <<transport, services>>
    /\ writing' = FALSE
    /\ gpc' = [gpc EXCEPT ![g] = "written"]
    /\ UNCHANGED <<muWriter, muPending, muReaders, gop, garg, gres, gerr>>

\* the deferred c.mu.Unlock(), and UpdateConfig returns nil
UpdateUnlock(g) ==
    /\ gpc[g] = "written"
    /\ muWriter' = NoGoroutine
    /\ gerr' = [gerr EXCEPT ![g] = "nil"]
    /\ gpc' = [gpc EXCEPT ![g] = "returned"]
    /\ UNCHANGED <<clientConfig, writing, muPending, muReaders, gop, garg, gres, installed, transport, services>>

nonClientVars == <<streamVars, retryVars, callVars, objectVars>>

InitClient ==
    /\ ClientIdle
    /\ ObjectsIdle
    /\ StreamIdle
    /\ RetryIdle
    /\ CallIdle

ClientCalls == \E g \in Goroutines : ClientCall(g) /\ UNCHANGED nonClientVars
GetterRLocks == \E g \in Goroutines : GetterRLock(g) /\ UNCHANGED nonClientVars
GetterReads == \E g \in Goroutines : GetterRead(g) /\ UNCHANGED nonClientVars
GetterRUnlocks == \E g \in Goroutines : GetterRUnlock(g) /\ UNCHANGED nonClientVars
UpdateValidates == \E g \in Goroutines : UpdateValidate(g) /\ UNCHANGED nonClientVars
UpdateLockPendings == \E g \in Goroutines : UpdateLockPending(g) /\ UNCHANGED nonClientVars
UpdateLockeds == \E g \in Goroutines : UpdateLocked(g) /\ UNCHANGED nonClientVars
UpdateWriteBegins == \E g \in Goroutines : UpdateWriteBegin(g) /\ UNCHANGED nonClientVars
UpdateWriteEnds == \E g \in Goroutines : UpdateWriteEnd(g) /\ UNCHANGED nonClientVars
UpdateUnlocks == \E g \in Goroutines : UpdateUnlock(g) /\ UNCHANGED nonClientVars

NextClient ==
    \/ ClientCalls
    \/ GetterRLocks
    \/ GetterReads
    \/ GetterRUnlocks
    \/ UpdateValidates
    \/ UpdateLockPendings
    \/ UpdateLockeds
    \/ UpdateWriteBegins
    \/ UpdateWriteEnds
    \/ UpdateUnlocks

SpecClient == InitClient /\ [][NextClient]_vars

\* the goroutine scheduler runs every goroutine that can run, and the
\* mutex hands the lock to a goroutine that keeps asking for it
ClientFairness ==
    \A g \in Goroutines :
        /\ SF_vars(GetterRLock(g) /\ UNCHANGED nonClientVars)
        /\ WF_vars(GetterRead(g) /\ UNCHANGED nonClientVars)
        /\ WF_vars(GetterRUnlock(g) /\ UNCHANGED nonClientVars)
        /\ WF_vars(UpdateValidate(g) /\ UNCHANGED nonClientVars)
        /\ SF_vars(UpdateLockPending(g) /\ UNCHANGED nonClientVars)
        /\ WF_vars(UpdateLocked(g) /\ UNCHANGED nonClientVars)
        /\ WF_vars(UpdateWriteBegin(g) /\ UNCHANGED nonClientVars)
        /\ WF_vars(UpdateWriteEnd(g) /\ UNCHANGED nonClientVars)
        /\ WF_vars(UpdateUnlock(g) /\ UNCHANGED nonClientVars)

SpecClientFair == SpecClient /\ ClientFairness

\* what a getter returns from the configuration it read
GetterResult(op, cfg) ==
    IF op = "GetAPIKey" THEN Config(cfg.APIKey, "", FALSE)
    ELSE IF op = "GetBaseURL" THEN Config("", cfg.BaseURL, FALSE)
    ELSE IF op = "IsDebugMode" THEN Config("", "", cfg.Debug)
    ELSE cfg

\* C30: a Client may be shared by goroutines: under every interleaving of
\* getters and UpdateConfig calls every call returns, every read observes
\* the complete configuration installed by NewClient or by one UpdateConfig,
\* never a mixture, and once an UpdateConfig(cfg) has returned nil with no
\* later update the getters return cfg's values.
C30_SharedClient ==
    /\ [](\A g \in Goroutines :
            (gpc[g] \in {"read", "returned"} /\ gop[g] \in Getters) =>
                /\ gres[g] \in { Clone(a) : a \in UpdateArgs \cup {NewClientConfig} }
                /\ gpc[g] = "read"
                       => GetterResult(gop[g], gres[g]) = GetterResult(gop[g], installed))
    /\ \A g \in Goroutines : (gpc[g] = "start") ~> (gpc[g] = "returned")

\* a getter read the configuration of an UpdateConfig that had returned,
\* while another goroutine was waiting with the next update
C30_Witness ==
    \E g \in Goroutines : \E w \in Goroutines :
        /\ gpc[g] = "read"
        /\ gop[g] = "GetConfig"
        /\ gres[g] = [DefaultConfig EXCEPT !.APIKey = "new-key", !.Debug = TRUE]
        /\ gpc[w] = "pending"

\* C40: TruncateMessages returns the messages it keeps in the order they
\* had in the input: the result is a subsequence of the input
C40_TruncateKeepsOrder ==
    ret.fn = "TruncateMessages" => IsSubsequence(ret.out, call.messages)

\* a configuration Config.Validate turns down, or nil
InvalidArg(cfg) == cfg = NilConfig \/ cfg.APIKey = "" \/ cfg.BaseURL = ""

\* C38: UpdateConfig called with nil or with an invalid configuration
\* returns an error, and its step leaves the client's configuration,
\* transport and services exactly as they were
C38_RejectedUpdateChangesNothing ==
    /\ [](\A g \in Goroutines :
            (gop[g] = "UpdateConfig" /\ gpc[g] = "returned" /\ InvalidArg(garg[g]))
                => gerr[g] = "error")
    /\ [][(\E g \in Goroutines :
               /\ gop[g] = "UpdateConfig"
               /\ InvalidArg(garg[g])
               /\ gpc[g] # gpc'[g])
           => UNCHANGED <<clientConfig, installed, transport, services, writing,
                          muWriter, muPending>>]_vars

\* a configuration without API key was turned down by a client that an
\* earlier UpdateConfig had reconfigured and given a new transport
C38_Witness ==
    \E g \in Goroutines :
        /\ gop[g] = "UpdateConfig"
        /\ garg[g] = DefaultConfig
        /\ gpc[g] = "returned"
        /\ gerr[g] = "error"
        /\ clientConfig = Config("concurrent-key", "https://other", FALSE)
        /\ transport = NewHTTPClient(clientConfig)
        /\ services = NewServices(transport)

\* C36: model resolution is deterministic: the id a resolution returns is
\* the only id the resolution of that name can return, whatever order the
\* alias table is walked in, also when several patterns occur in the name
C36_MapModelDeterministic ==
    ret.fn = "mapModel" => mapModelResults(call.name) = {ret.first}

\* =======================================================================
\* ChatStreamReader (services/chat/stream.go): the readLoop goroutine, one
\* goroutine that calls Close and one that calls Read
\* buffer: make(chan types.ChatCompletionChunk, 100)
ChatBufferCap == 100

\* what processor.Next yields for one upstream event: a data event whose
\* chunk parses, a data event whose chunk does not parse, an event of
\* another type
UpstreamEvents == {"data", "bad", "other"}
UpstreamScripts == UNION {[1..n -> UpstreamEvents] : n \in 0..MaxChunks}
\* how the upstream behaves after its events: processor.Next returns io.EOF,
\* returns another error, or keeps blocking in p.stream.Next
UpstreamEnds == {"eof", "error", "stall"}

exceptChatReader == <<streamVars, retryVars, callVars, clientVars, streamWriter, server, processor>>

\* NewChatStreamReader: wg.Add(1); go reader.readLoop()
NewChatStreamReader(events, ending) ==
    [ChatReaderIdle EXCEPT !.upstream = events, !.upstreamEnd = ending,
                           !.wg = 1, !.lpc = "poll"]

\* readLoop: select { case <-r.ctx.Done(): return; default: }
ReadLoopPoll ==
    /\ chatReader.lpc = "poll"
    /\ chatReader' = [chatReader EXCEPT
                        !.lpc = IF chatReader.ctxDone THEN "return" ELSE "next"]
    /\ UNCHANGED exceptChatReader

\* where readLoop goes with the error of processor.Next; the source takes
\* r.mu.Lock() for every error but io.EOF
AfterNextError(ending) == IF ending = "eof" THEN "return" ELSE "lock"

\* readLoop: event, err := r.processor.Next(), and parseChunk of a data event
ReadLoopNext ==
    /\ chatReader.lpc = "next"
    /\ IF chatReader.upstream # << >>
       THEN chatReader' = [chatReader EXCEPT
                !.upstream = Tail(chatReader.upstream),
                !.lpc = IF Head(chatReader.upstream) = "data" THEN "send" ELSE "poll"]
       ELSE /\ chatReader.upstreamEnd # "stall"
            /\ chatReader' = [chatReader EXCEPT
                                !.lpc = AfterNextError(chatReader.upstreamEnd)]
    /\ UNCHANGED exceptChatReader

\* readLoop: r.mu.Lock() before recording the error
ReadLoopLock ==
    /\ chatReader.lpc = "lock"
    /\ chatReader.mu = "free"
    /\ chatReader' = [chatReader EXCEPT !.mu = "readLoop", !.lpc = "record"]
    /\ UNCHANGED exceptChatReader

\* readLoop: r.err = err; r.mu.Unlock(); return
ReadLoopRecord ==
    /\ chatReader.lpc = "record"
    /\ chatReader' = [chatReader EXCEPT !.err = "error", !.mu = "free", !.lpc = "return"]
    /\ UNCHANGED exceptChatReader

\* readLoop: select { case <-r.ctx.Done(): return; case r.buffer <- *chunk: }
ReadLoopSend ==
    /\ chatReader.lpc = "send"
    /\ \/ /\ chatReader.ctxDone
          /\ chatReader' = [chatReader EXCEPT !.lpc = "return"]
       \/ /\ chatReader.buffer < ChatBufferCap
          /\ chatReader.bufferCloses = 0
          /\ chatReader' = [chatReader EXCEPT !.buffer = @ + 1, !.lpc = "poll"]
    /\ UNCHANGED exceptChatReader

\* readLoop: defer r.wg.Done()
ReadLoopReturn ==
    /\ chatReader.lpc = "return"
    /\ chatReader' = [chatReader EXCEPT !.wg = 0, !.lpc = "done"]
    /\ UNCHANGED exceptChatReader

\* a goroutine calls Close
ChatCloseCall ==
    /\ chatReader.cpc = "idle"
    /\ chatReader.closes < MaxCloses
    /\ chatReader' = [chatReader EXCEPT !.cpc = "lock", !.closeRet = "none"]
    /\ UNCHANGED exceptChatReader

\* Close: r.mu.Lock(); if r.finished { return nil }; r.finished = true; r.cancel()
ChatCloseLock ==
    /\ chatReader.cpc = "lock"
    /\ chatReader.mu = "free"
    /\ IF chatReader.finished
       THEN chatReader' = [chatReader EXCEPT !.cpc = "idle", !.closes = @ + 1,
                                             !.closeRet = "nil"]
       ELSE chatReader' = [chatReader EXCEPT !.mu = "Close", !.finished = TRUE,
                                             !.ctxDone = TRUE, !.cpc = "wait"]
    /\ UNCHANGED exceptChatReader

\* Close: r.wg.Wait(); close(r.buffer); return r.processor.Close(), and the
\* deferred r.mu.Unlock()
ChatCloseWait ==
    /\ chatReader.cpc = "wait"
    /\ chatReader.wg = 0
    /\ chatReader' = [chatReader EXCEPT !.bufferCloses = @ + 1, !.mu = "free",
                                        !.cpc = "idle", !.closes = @ + 1,
                                        !.closeRet = "nil"]
    /\ UNCHANGED exceptChatReader

\* a goroutine calls Read
ChatReadCall ==
    /\ chatReader.rdpc = "idle"
    /\ chatReader' = [chatReader EXCEPT !.rdpc = "select", !.rdRet = "none"]
    /\ UNCHANGED exceptChatReader

\* Read: select { case <-r.ctx.Done(): return nil, r.ctx.Err();
\*                case chunk := <-r.buffer: return &chunk, nil }
\* a receive from the closed, drained buffer yields the zero chunk
ChatReadSelect ==
    /\ chatReader.rdpc = "select"
    /\ \/ /\ chatReader.ctxDone
          /\ chatReader' = [chatReader EXCEPT !.rdpc = "idle", !.rdRet = "canceled"]
       \/ /\ chatReader.buffer > 0
          /\ chatReader' = [chatReader EXCEPT !.buffer = @ - 1, !.rdpc = "idle",
                                              !.rdRet = "chunk"]
       \/ /\ chatReader.buffer = 0
          /\ chatReader.bufferCloses > 0
          /\ chatReader' = [chatReader EXCEPT !.rdpc = "idle", !.rdRet = "zero"]
    /\ UNCHANGED exceptChatReader

InitChatReader ==
    /\ chatReader \in {NewChatStreamReader(events, ending) :
                          events \in UpstreamScripts, ending \in UpstreamEnds}
    /\ streamWriter = StreamWriterIdle
    /\ server = ServerIdle
    /\ processor = ProcessorIdle
    /\ StreamIdle
    /\ RetryIdle
    /\ CallIdle
    /\ ClientIdle

NextChatReader ==
    \/ ReadLoopPoll
    \/ ReadLoopNext
    \/ ReadLoopLock
    \/ ReadLoopRecord
    \/ ReadLoopSend
    \/ ReadLoopReturn
    \/ ChatCloseCall
    \/ ChatCloseLock
    \/ ChatCloseWait
    \/ ChatReadCall
    \/ ChatReadSelect

SpecChatReader == InitChatReader /\ [][NextChatReader]_vars

\* the scheduler runs every goroutine that can take a step, and the mutex
\* is handed to a goroutine that keeps asking for it; nothing obliges a
\* caller to call Close or Read
ChatReaderFairness ==
    /\ WF_vars(ReadLoopPoll)
    /\ WF_vars(ReadLoopNext)
    /\ SF_vars(ReadLoopLock)
    /\ WF_vars(ReadLoopRecord)
    /\ WF_vars(ReadLoopSend)
    /\ WF_vars(ReadLoopReturn)
    /\ SF_vars(ChatCloseLock)
    /\ WF_vars(ChatCloseWait)
    /\ WF_vars(ChatReadSelect)

SpecChatReaderFair == SpecChatReader /\ ChatReaderFairness

\* the upstream has ended and readLoop has seen it end
StreamEnded ==
    /\ chatReader.upstream = << >>
    /\ chatReader.upstreamEnd \in {"eof", "error"}
    /\ chatReader.lpc \in {"lock", "record", "return", "done"}

\* C33: Close always returns, also while readLoop records a stream error
\* under the reader's mutex or is blocked inside processor.Next, and when it
\* has returned the read loop has terminated and the buffer was closed once
C33_CloseAlwaysReturns ==
    /\ [](chatReader.closeRet = "nil" =>
              chatReader.lpc = "done" /\ chatReader.bufferCloses = 1)
    /\ (chatReader.cpc # "idle" ~> chatReader.cpc = "idle")

\* C34: once the upstream has ended and the buffered chunks are consumed, a
\* Read call returns without waiting for Close
C34_ReadReturnsAfterEnd ==
    (StreamEnded /\ chatReader.buffer = 0 /\ chatReader.rdpc = "select"
        /\ chatReader.closes = 0 /\ chatReader.cpc = "idle")
      ~> (chatReader.rdpc = "idle" \/ chatReader.cpc # "idle")

\* =======================================================================
\* StreamWriter (types package, part_010): goroutines that call WriteEvent
\* and Close on one writer; w.mutex is a sync.Mutex, which a goroutine that
\* already holds it cannot lock again
Writers == 1..MaxWriters
WriterOps == {"WriteEvent", "Close"}

exceptStreamWriter == <<streamVars, retryVars, callVars, clientVars, chatReader, server, processor>>

\* a goroutine calls WriteEvent or Close; wasClosed remembers whether the
\* writer had been closed by a Close that returned before this call
WriterCall(g, op) ==
    /\ streamWriter.wpc[g] = "idle"
    /\ streamWriter.calls < MaxWriterCalls
    /\ streamWriter' = [streamWriter EXCEPT
            !.calls = @ + 1,
            !.wpc[g] = IF op = "Close" THEN "Close" ELSE "WriteEvent",
            !.wop[g] = op,
            !.wret[g] = "none",
            !.wasClosed[g] = streamWriter.closeReturned]
    /\ UNCHANGED exceptStreamWriter

\* Close: w.mutex.Lock(); if w.closed { return nil }; w.closed = true;
\* return w.WriteComplete(), which calls w.WriteEvent(event)
WriterCloseLock(g) ==
    /\ streamWriter.wpc[g] = "Close"
    /\ streamWriter.mutex = NoGoroutine
    /\ IF streamWriter.closed
       THEN streamWriter' = [streamWriter EXCEPT
                !.wpc[g] = "idle", !.wret[g] = "nil", !.closeReturned = TRUE]
       ELSE streamWriter' = [streamWriter EXCEPT
                !.mutex = g, !.closed = TRUE, !.wpc[g] = "WriteEvent"]
    /\ UNCHANGED exceptStreamWriter

\* WriteEvent: w.mutex.Lock()
WriteEventLock(g) ==
    /\ streamWriter.wpc[g] = "WriteEvent"
    /\ streamWriter.mutex = NoGoroutine
    /\ streamWriter' = [streamWriter EXCEPT !.mutex = g, !.wpc[g] = "locked"]
    /\ UNCHANGED exceptStreamWriter

\* WriteEvent: if w.closed { return error }; w.writer.Write(...); return err,
\* and the deferred w.mutex.Unlock()
WriteEventBody(g, writeErr) ==
    /\ streamWriter.wpc[g] = "locked"
    /\ IF streamWriter.closed
       THEN streamWriter' = [streamWriter EXCEPT
                !.mutex = NoGoroutine, !.wpc[g] = "idle", !.wret[g] = "closed"]
       ELSE streamWriter' = [streamWriter EXCEPT
                !.mutex = NoGoroutine, !.wpc[g] = "idle",
                !.written = @ + 1,
                !.completes = IF streamWriter.wop[g] = "Close" THEN @ + 1 ELSE @,
                !.closeReturned = @ \/ streamWriter.wop[g] = "Close",
                !.wret[g] = IF writeErr THEN "writeError" ELSE "nil"]
    /\ UNCHANGED exceptStreamWriter

InitStreamWriter ==
    /\ streamWriter = StreamWriterIdle
    /\ chatReader = ChatReaderIdle
    /\ server = ServerIdle
    /\ processor = ProcessorIdle
    /\ StreamIdle
    /\ RetryIdle
    /\ CallIdle
    /\ ClientIdle

WriterCalls == \E g \in Writers, op \in WriterOps : WriterCall(g, op)
WriterCloseLocks == \E g \in Writers : WriterCloseLock(g)
WriteEventLocks == \E g \in Writers : WriteEventLock(g)
WriteEventBodies == \E g \in Writers, writeErr \in BOOLEAN : WriteEventBody(g, writeErr)

NextStreamWriter ==
    \/ WriterCalls
    \/ WriterCloseLocks
    \/ WriteEventLocks
    \/ WriteEventBodies

SpecStreamWriter == InitStreamWriter /\ [][NextStreamWriter]_vars

\* every goroutine inside a call keeps running, and the mutex is handed to
\* a goroutine that keeps asking for it
StreamWriterFairness ==
    \A g \in Writers :
        /\ SF_vars(WriterCloseLock(g))
        /\ SF_vars(WriteEventLock(g))
        /\ WF_vars(\E writeErr \in BOOLEAN : WriteEventBody(g, writeErr))

SpecStreamWriterFair == SpecStreamWriter /\ StreamWriterFairness

\* C35: Close always returns; a Close that returns has left the writer
\* closed with the completion event written, and a call made after that
\* returns nil (Close) or the closed-writer error (WriteEvent)
C35_WriterCloseReturns ==
    /\ \A g \in Writers :
         (streamWriter.wpc[g] # "idle" /\ streamWriter.wop[g] = "Close")
            ~> streamWriter.wpc[g] = "idle"
    /\ [](streamWriter.closeReturned =>
              streamWriter.closed /\ streamWriter.completes = 1)
    /\ [](\A g \in Writers :
             (streamWriter.wasClosed[g] /\ streamWriter.wpc[g] = "idle") =>
                 streamWriter.wret[g] =
                     (IF streamWriter.wop[g] = "Close" THEN "nil" ELSE "closed"))

\* =======================================================================
\* Server (proxy package, part_015): Start, Stop and IsRunning, and the
\* goroutine Start spawns to run s.httpServer.ListenAndServe()

exceptServer == <<streamVars, retryVars, callVars, clientVars, chatReader, streamWriter, processor>>

\* Start: under s.mu, reject when s.running, else s.running = true; then
\* go func() { s.httpServer.ListenAndServe() ... }(); return nil
\* (rejectedWhile remembers what the listener was doing when Start refused)
ServerStart ==
    /\ server.starts < MaxStarts
    /\ IF server.running
       THEN server' = [server EXCEPT !.starts = @ + 1,
                                     !.startRet = "server is already running",
                                     !.rejectedWhile = server.serve]
       ELSE server' = [server EXCEPT !.starts = @ + 1, !.running = TRUE,
                                     !.serve = "starting", !.startRet = "nil"]
    /\ UNCHANGED exceptServer

\* the spawned goroutine: ListenAndServe returns http.ErrServerClosed on a
\* server that was shut down, returns the bind error when the address is in
\* use, and serves otherwise; the goroutine only logs the error
ServerListenAndServe ==
    /\ server.serve = "starting"
    /\ server' = [server EXCEPT
                    !.serve = IF server.shutDown THEN "closed"
                              ELSE IF server.addrInUse THEN "failed"
                              ELSE "serving"]
    /\ UNCHANGED exceptServer

\* the listener breaks while serving: ListenAndServe returns an error,
\* which the goroutine logs
ServerServeError ==
    /\ server.serve = "serving"
    /\ server' = [server EXCEPT !.serve = "failed"]
    /\ UNCHANGED exceptServer

\* Stop: under s.mu, fail when not running, else s.running = false; then
\* s.httpServer.Shutdown(ctx)
ServerStop ==
    /\ IF ~server.running
       THEN server' = [server EXCEPT !.stopRet = "server is not running"]
       ELSE \E shutdownErr \in BOOLEAN :
               server' = [server EXCEPT
                    !.running = FALSE,
                    !.shutDown = TRUE,
                    !.serve = IF @ = "serving" THEN "closed" ELSE @,
                    !.stopRet = IF shutdownErr THEN "shutdown error" ELSE "nil"]
    /\ UNCHANGED exceptServer

\* IsRunning: return s.running (seenServe remembers what the listener was
\* doing at that moment)
ServerIsRunning ==
    /\ server' = [server EXCEPT !.isRunning = server.running,
                                !.seenServe = server.serve]
    /\ UNCHANGED exceptServer

\* another process takes or frees the server's address
ServerAddress ==
    /\ server' = [server EXCEPT !.addrInUse = ~@]
    /\ UNCHANGED exceptServer

InitServer ==
    /\ server \in {[ServerIdle EXCEPT !.addrInUse = b] : b \in BOOLEAN}
    /\ processor = ProcessorIdle
    /\ chatReader = ChatReaderIdle
    /\ streamWriter = StreamWriterIdle
    /\ StreamIdle
    /\ RetryIdle
    /\ CallIdle
    /\ ClientIdle

NextServer ==
    \/ ServerStart
    \/ ServerListenAndServe
    \/ ServerServeError
    \/ ServerStop
    \/ ServerIsRunning
    \/ ServerAddress

SpecServer == InitServer /\ [][NextServer]_vars

\* C37: IsRunning reports true only while the listener can serve, and a
\* Start is not refused as "already running" after ListenAndServe failed
C37_RunningMeansServing ==
    /\ server.isRunning => server.seenServe # "failed"
    /\ server.startRet = "server is already running" => server.rejectedWhile # "failed"

\* =======================================================================
\* StreamProcessor of the types package (part_010) over a types.StreamReader:
\* the process goroutine, Stop, and the reader's context and Close
ProcessorInputs == UNION {[1..n -> {"data", "complete"}] : n \in 0..MaxProcEvents}
\* how the reader's input ends: io.EOF, or a read error that every later
\* read meets again
ProcessorInputEnds == {"eof", "error"}

exceptProcessor ==
    <<streamVars, retryVars, callVars, clientVars, chatReader, streamWriter, server>>

\* Start: p.running = true; go p.process()
ProcessorStart ==
    /\ processor.ppc = "none"
    /\ processor' = [processor EXCEPT !.running = TRUE, !.ppc = "poll"]
    /\ UNCHANGED exceptProcessor

\* process: select { case <-p.ctx.Done(): return; default: }, and the
\* deferred p.running = false
ProcessPoll ==
    /\ processor.ppc = "poll"
    /\ IF processor.ctxDone
       THEN processor' = [processor EXCEPT !.ppc = "exited", !.running = FALSE]
       ELSE processor' = [processor EXCEPT !.ppc = "next"]
    /\ UNCHANGED exceptProcessor

\* StreamReader.Next: io.EOF when r.done or r.closed; r.ctx.Err() when the
\* reader's context is done; else readEvent, which yields the next event,
\* or sets r.done and returns io.EOF, or records and returns the read error
StreamReaderNext(p) ==
    IF p.rdone \/ p.rclosed THEN [err |-> "EOF", event |-> "none", rdone |-> p.rdone]
    ELSE IF p.rctxDone THEN [err |-> "context canceled", event |-> "none", rdone |-> FALSE]
    ELSE IF p.input # << >> THEN [err |-> "nil", event |-> Head(p.input), rdone |-> FALSE]
    ELSE IF p.inputEnd = "eof" THEN [err |-> "EOF", event |-> "none", rdone |-> TRUE]
    ELSE [err |-> "read error", event |-> "none", rdone |-> FALSE]

\* where process goes after an error of p.reader.Next(): it returns on
\* io.EOF only; after any other error it handles an error event and continues
AfterReaderError(err) == IF err = "EOF" THEN "exited" ELSE "poll"

\* process: event, err := p.reader.Next() and p.handleEvent(...)
ProcessNext ==
    /\ processor.ppc = "next"
    /\ LET res == StreamReaderNext(processor)
       IN  IF res.err # "nil"
           THEN processor' = [processor EXCEPT
                    !.rdone = res.rdone,
                    !.ppc = AfterReaderError(res.err),
                    !.running = IF AfterReaderError(res.err) = "exited" THEN FALSE ELSE @,
                    !.lastErr = res.err,
                    !.handled = IF res.err = "EOF" THEN @ ELSE "error"]
           ELSE processor' = [processor EXCEPT
                    !.input = Tail(@), !.ppc = "poll", !.handled = res.event]
    /\ UNCHANGED exceptProcessor

\* Stop: p.running = false; p.cancel()
ProcessorStop ==
    /\ processor.running
    /\ processor' = [processor EXCEPT !.running = FALSE, !.ctxDone = TRUE]
    /\ UNCHANGED exceptProcessor

\* the context the reader was created with is cancelled
ReaderContextCancel ==
    /\ ~processor.rctxDone
    /\ processor' = [processor EXCEPT !.rctxDone = TRUE]
    /\ UNCHANGED exceptProcessor

\* StreamReader.Close: r.closed = true; r.cancel(); close(r.events)
StreamReaderClose ==
    /\ ~processor.rclosed
    /\ processor' = [processor EXCEPT !.rclosed = TRUE, !.rctxDone = TRUE]
    /\ UNCHANGED exceptProcessor

InitProcessor ==
    /\ processor \in {[ProcessorIdle EXCEPT !.input = i, !.inputEnd = e] :
                         i \in ProcessorInputs, e \in ProcessorInputEnds}
    /\ chatReader = ChatReaderIdle
    /\ streamWriter = StreamWriterIdle
    /\ server = ServerIdle
    /\ StreamIdle
    /\ RetryIdle
    /\ CallIdle
    /\ ClientIdle

NextProcessor ==
    \/ ProcessorStart
    \/ ProcessPoll
    \/ ProcessNext
    \/ ProcessorStop
    \/ ReaderContextCancel
    \/ StreamReaderClose

SpecProcessor == InitProcessor /\ [][NextProcessor]_vars

\* the scheduler keeps running the process goroutine; nothing obliges
\* anyone to call Stop or Close
ProcessorFairness ==
    /\ WF_vars(ProcessPoll)
    /\ WF_vars(ProcessNext)

SpecProcessorFair == SpecProcessor /\ ProcessorFairness

\* C39: once the reader has reported an error that is not io.EOF and that
\* persists (its context is cancelled, its input keeps failing), the
\* process loop terminates without waiting for Stop
C39_ProcessTerminates ==
    (processor.lastErr \in {"context canceled", "read error"}) ~> (processor.ppc = "exited")
====
